---- MODULE Spec2Model ----
(***************************************************************************)
(* Model of the tonie-uploader request handlers: api/auth.js,              *)
(* api/households.js, api/upload-file.js (device upload) and               *)
(* api/upload-from-youtube.js (URL upload), with the shared helpers of     *)
(* utils/auth.js.  One request is handled from arrival to the end of its   *)
(* handler; the upstream services (login endpoint, Tonie API, presigned    *)
(* storage target, video host) answer nondeterministically.                *)
(*                                                                         *)
(* Strings the code inspects (title, composite tonie key, filename) are    *)
(* sequences of symbols, so that startsWith, split and toLowerCase are     *)
(* computed, not assumed.                                                  *)
(***************************************************************************)
EXTENDS Integers, Sequences, FiniteSets, TLC

\* ------------------------------------------------------------------ bounds

\* Largest number of households the /households listing returns.
MaxHouseholds == 2
\* Largest number of data chunks the audio stream delivers in one download.
MaxChunks == 2

\* --------------------------------------------------------- program constants

MAX_FILE_SIZE_DEVICE == 1073741824
MAX_FILE_SIZE_URL == 536870912
MAX_FILENAME_LENGTH == 128
BYTES_PER_MB == 1024 * 1024

SUPPORTED_FORMATS ==
    << <<"a","a","c">>, <<"a","i","f","f">>, <<"a","i","f">>, <<"f","l","a","c">>,
       <<"m","p","3">>, <<"m","4","a">>, <<"m","4","b">>, <<"o","g","a">>,
       <<"o","g","g">>, <<"o","p","u","s">>, <<"w","a","v">>, <<"w","m","a">> >>

\* process.env.APP_PASSWORD
APP_PASSWORD == "secret"

\* The marker of the debug bypass: title.startsWith('DEBUG').
DEBUG_MARKER == <<"D","E","B","U","G">>

\* The value of a destructured array element that does not exist.
Undefined == <<"<undefined>">>

\* tempFilePath = null
NoPath == "null"

\* ------------------------------------------------------------ string helpers

Range(s) == {s[i] : i \in 1..Len(s)}

\* String.prototype.startsWith
StartsWith(s, prefix) ==
    /\ Len(s) >= Len(prefix)
    /\ SubSeq(s, 1, Len(prefix)) = prefix

\* String.prototype.indexOf for a one-symbol separator, 1-based; 0 if none.
IndexOf(s, sep) ==
    LET hits == {i \in 1..Len(s) : s[i] = sep}
    IN  IF hits = {} THEN 0 ELSE CHOOSE i \in hits : \A j \in hits : i <= j

\* String.prototype.split(sep) for a one-symbol separator.
RECURSIVE Split(_, _)
Split(s, sep) ==
    LET i == IndexOf(s, sep)
    IN  IF i = 0 THEN <<s>>
        ELSE <<SubSeq(s, 1, i - 1)>> \o Split(SubSeq(s, i + 1, Len(s)), sep)

UpperCase ==
    <<"A", "B", "C", "D", "E", "F", "G", "H", "I", "J", "K", "L", "M",
      "N", "O", "P", "Q", "R", "S", "T", "U", "V", "W", "X", "Y", "Z">>

LowerCase ==
    <<"a", "b", "c", "d", "e", "f", "g", "h", "i", "j", "k", "l", "m",
      "n", "o", "p", "q", "r", "s", "t", "u", "v", "w", "x", "y", "z">>

Digits == {"0", "1", "2", "3", "4", "5", "6", "7", "8", "9"}

Whitespace == {" ", "\t", "\n"}

LowerTable ==
    [c \in Range(UpperCase) |-> LowerCase[CHOOSE i \in 1..Len(UpperCase) : UpperCase[i] = c]]

LowerOf(c) == IF c \in DOMAIN LowerTable THEN LowerTable[c] ELSE c

\* String.prototype.toLowerCase
ToLowerCase(s) == [i \in 1..Len(s) |-> LowerOf(s[i])]

\* String.prototype.trim
RECURSIVE TrimStart(_)
TrimStart(s) ==
    IF s # <<>> /\ Head(s) \in Whitespace THEN TrimStart(Tail(s)) ELSE s

RECURSIVE TrimEnd(_)
TrimEnd(s) ==
    IF s # <<>> /\ s[Len(s)] \in Whitespace THEN TrimEnd(SubSeq(s, 1, Len(s) - 1)) ELSE s

Trim(s) == TrimEnd(TrimStart(s))

\* String.prototype.substring(0, n)
Substring0(s, n) ==
    IF n <= 0 THEN <<>> ELSE IF n >= Len(s) THEN s ELSE SubSeq(s, 1, n)

\* n copies of the symbol c
Repeat(c, n) == [i \in 1..n |-> c]

\* Array.prototype.includes
Includes(list, x) == x \in Range(list)

\* Array.prototype.pop on a non-empty array
Last(list) == list[Len(list)]

\* ---------------------------------------------------------------- validation

\* Math.round(n / 1024 / 1024) for n >= 0
RoundMB(n) == (n \div BYTES_PER_MB) + (IF 2 * (n % BYTES_PER_MB) >= BYTES_PER_MB THEN 1 ELSE 0)

\* An extension taken without lowering the case of the filename.
Extension_CaseSensitive(filename) == Last(Split(filename, "."))

\* filename.toLowerCase().split('.').pop()
Extension(filename) == Last(Split(ToLowerCase(filename), "."))

ValidationError(rule, num, ext) == [rule |-> rule, num |-> num, ext |-> ext]

\* A size rule that already refuses a payload of exactly the ceiling.
validateFile_CeilingExcluded(size, filename, maxSize) ==
    (IF size >= maxSize
        THEN <<ValidationError("size", RoundMB(size), <<>>)>> ELSE <<>>)
    \o (IF Len(filename) > MAX_FILENAME_LENGTH
        THEN <<ValidationError("length", Len(filename), <<>>)>> ELSE <<>>)
    \o (IF ~Includes(SUPPORTED_FORMATS, Extension(filename))
        THEN <<ValidationError("format", 0, Extension(filename))>> ELSE <<>>)

\* validateFile of upload-file.js and upload-from-youtube.js; the two differ
\* in the ceiling only, passed here as maxSize.
validateFile(size, filename, maxSize) ==
    (IF size > maxSize
        THEN <<ValidationError("size", RoundMB(size), <<>>)>> ELSE <<>>)
    \o (IF Len(filename) > MAX_FILENAME_LENGTH
        THEN <<ValidationError("length", Len(filename), <<>>)>> ELSE <<>>)
    \o (IF ~Includes(SUPPORTED_FORMATS, Extension(filename))
        THEN <<ValidationError("format", 0, Extension(filename))>> ELSE <<>>)

\* --------------------------------------------------------------- credentials

\* A gate that only asks for a password, whatever it is.
verifyAppPassword_AnyNonEmpty(providedPassword) == providedPassword # ""

\* verifyAppPassword: providedPassword && providedPassword === APP_PASSWORD
verifyAppPassword(providedPassword) ==
    providedPassword # "" /\ providedPassword = APP_PASSWORD

\* The inline check of api/auth.js: !appPassword || appPassword !== APP_PASSWORD
AuthGateRejects(appPassword) ==
    appPassword = "" \/ appPassword # APP_PASSWORD

\* ------------------------------------------------------------------ requests

Methods == {"OPTIONS", "GET", "POST"}
Passwords == {"", APP_PASSWORD, "wrong"}

HouseholdSymbols == <<"h1", "h2", "h3", "h4">>
HouseholdNames == <<"Home", "Grandma", "Cabin", "Office">>
Household(i) == [id |-> <<HouseholdSymbols[i]>>, name |-> HouseholdNames[i]]

Tonie1 == [id |-> <<"t1">>, name |-> "Pirate"]
Tonie2 == [id |-> <<"t2">>, name |-> "Fairy"]

\* Composite keys "{householdId}/{creativeTonieId}" a caller may send, the
\* empty key and malformed ones included.
TonieKeys ==
    { <<>>, <<"h1">>, <<"h1", "/", "t1">>, <<"h1", "/", "t2">>,
      <<"h2", "/", "t1">>, <<"h1", "/", "t1", "/", "x">> }

Titles ==
    { <<>>, <<"M", "y">>, DEBUG_MARKER \o <<" ", "1">>, <<"d", "e", "b", "u", "g">> }

UrlTonieKeys == { <<>>, <<"h1">>, <<"h1", "/", "t1">> }

UrlTitles == { <<>>, <<"M", "y">>, DEBUG_MARKER \o <<" ", "1">> }

SongMp3 == <<"s", "o", "n", "g", ".", "m", "p", "3">>

Filenames ==
    { SongMp3, <<"S", ".", "M", "P", "3">>, <<"s", ".", "e", "x", "e">>,
      Repeat("a", MAX_FILENAME_LENGTH - 3) \o <<".", "m", "p", "3">>,
      Repeat("a", MAX_FILENAME_LENGTH - 3) \o <<".", "e", "x", "e">> }

\* Filenames that probe the format rule: every supported extension, upper
\* case, no dot, several dots, a trailing dot.
FormatProbes ==
    { <<"s", ".">> \o SUPPORTED_FORMATS[k] : k \in DOMAIN SUPPORTED_FORMATS }
    \cup { <<"s", ".", "E", "X", "E">>, <<"s", ".", "O", "g", "G">>, <<"m", "p", "3">>,
           <<"s", "o", "n", "g">>, <<"a", ".", "m", "p", "3", ".", "t", "x", "t">>,
           <<"a", ".", "t", "x", "t", ".", "m", "p", "3">>, <<"s", ".">> }

DeviceFileSizes == {2 * BYTES_PER_MB, MAX_FILE_SIZE_DEVICE, MAX_FILE_SIZE_DEVICE + 1}

ContentTypes == {"none", "application/json", "multipart/form-data",
                 "multipart/form-data; boundary=B"}

\* contentType && contentType.includes('multipart/form-data')
IsMultipart(contentType) ==
    contentType \in {"multipart/form-data", "multipart/form-data; boundary=B"}

\* A decoder that finds a boundary in every content type.
HasBoundary_Always(contentType) == TRUE

\* contentType.match(/boundary=([^;]+)/) succeeds
HasBoundary(contentType) == contentType = "multipart/form-data; boundary=B"

BaseRequest ==
    [handler |-> "auth", method |-> "POST", hasBody |-> TRUE, contentType |-> "none",
     bodyReadOk |-> TRUE, appPassword |-> "", action |-> "", sessionToken |-> "",
     tonieId |-> <<>>, title |-> <<>>, url |-> "", hasFile |-> FALSE, fileSize |-> 0,
     filename |-> <<>>]

\* Requests to api/auth.js: JSON body {appPassword, action}.
AuthRequests ==
    { [BaseRequest EXCEPT !.handler = "auth", !.method = m, !.hasBody = b,
                          !.appPassword = p, !.action = a] :
        m \in Methods, b \in BOOLEAN, p \in Passwords,
        a \in {"verify", "tonie-login", "other"} }

\* Requests to api/households.js: JSON body {appPassword, sessionToken}.
HouseholdsRequests ==
    { [BaseRequest EXCEPT !.handler = "households", !.method = m, !.hasBody = b,
                          !.appPassword = p, !.sessionToken = t] :
        m \in Methods, b \in BOOLEAN, p \in Passwords, t \in {"", "tokCaller"} }

\* Requests to api/upload-file.js. The body is given by what parseMultipartData
\* returns for it: fields {appPassword, tonieId, title}, fileData, filename.
DeviceRequests ==
    { [BaseRequest EXCEPT !.handler = "device", !.method = m, !.contentType = c,
                          !.bodyReadOk = r, !.appPassword = p] :
        m \in Methods, c \in ContentTypes, r \in BOOLEAN, p \in Passwords }
    \cup
    { [BaseRequest EXCEPT !.handler = "device", !.contentType = c, !.bodyReadOk = r,
                          !.appPassword = p, !.tonieId = k, !.title = t,
                          !.hasFile = f, !.fileSize = IF f THEN z ELSE 0,
                          !.filename = n] :
        c \in {"multipart/form-data; boundary=B"}, r \in BOOLEAN, p \in Passwords,
        k \in TonieKeys, t \in Titles, f \in BOOLEAN, z \in DeviceFileSizes,
        n \in Filenames }
    \cup
    { [BaseRequest EXCEPT !.handler = "device",
                          !.contentType = "multipart/form-data; boundary=B",
                          !.appPassword = APP_PASSWORD, !.tonieId = <<"h1", "/", "t1">>,
                          !.title = DEBUG_MARKER, !.hasFile = TRUE,
                          !.fileSize = BYTES_PER_MB, !.filename = n] :
        n \in FormatProbes }

\* Requests to api/upload-from-youtube.js: JSON body {appPassword, tonieId, title, url}.
UrlRequests ==
    { [BaseRequest EXCEPT !.handler = "url", !.method = m, !.hasBody = b,
                          !.appPassword = p, !.tonieId = k, !.title = t, !.url = u] :
        m \in Methods, b \in BOOLEAN, p \in Passwords, k \in UrlTonieKeys,
        t \in UrlTitles, u \in {"", "https://youtu.be/v", "not-a-video-url"} }

\* const [householdId, creativeTonnieId] = tonieId.split('/')
householdId(tonieId) == Split(tonieId, "/")[1]

creativeTonnieId(tonieId) ==
    IF Len(Split(tonieId, "/")) >= 2 THEN Split(tonieId, "/")[2] ELSE Undefined

\* A handler without the debug bypass.
IsDebugTitle_Never(title) == FALSE

\* title.startsWith('DEBUG')
IsDebugTitle(title) == StartsWith(title, DEBUG_MARKER)

\* ------------------------------------------------------------------- state

VARIABLES
    req,            \* the request being handled (never changes)
    pc,             \* where the handler is suspended: the pending await
    calls,          \* the upstream calls made so far, in order, with their outcome
    sent,           \* the responses written to res, in order
    accessToken,    \* the handler's accessToken
    uploadRequest,  \* the handler's uploadRequest (data of POST /file)
    fileId,         \* the handler's fileId (what uploadToS3 returned)
    lookups,        \* households handler: one entry per household of Promise.all
    primaryStatus,  \* URL upload: status of the failed primary listing result
    video,          \* URL upload: videoInfo
    filename,       \* URL upload: the generated filename
    tempFilePath,   \* URL upload: tempFilePath
    tmpFile,        \* the file system: state of the temporary file
    unlinks,        \* number of unlink calls made
    download,       \* URL upload: the state of downloadYouTubeAudio's promise
    fileSize,       \* URL upload: what the download resolved with
    headers,        \* the headers set on res so far
    log             \* the request fields written with console.log so far

vars == <<req, pc, calls, sent, accessToken, uploadRequest, fileId, lookups,
          primaryStatus, video, filename, tempFilePath, tmpFile, unlinks, download,
          fileSize, headers, log>>

urlVars == <<video, filename, tempFilePath, tmpFile, unlinks, download, fileSize>>

\* ------------------------------------------------------------------ headers

\* The cross-origin headers of res before the handler has set any.
NoHeaders == [allowOrigin |-> "", allowMethods |-> "", allowHeaders |-> ""]

\* A setCorsHeaders that names no origin.
setCorsHeaders_NoOrigin ==
    [allowOrigin |-> "", allowMethods |-> "GET, POST, OPTIONS",
     allowHeaders |-> "Content-Type, Authorization"]

\* setCorsHeaders(res) of utils/auth.js
setCorsHeaders ==
    [allowOrigin |-> "*", allowMethods |-> "GET, POST, OPTIONS",
     allowHeaders |-> "Content-Type, Authorization"]

\* The three res.setHeader calls api/auth.js makes itself.
AuthCorsHeaders ==
    [allowOrigin |-> "*", allowMethods |-> "POST, OPTIONS",
     allowHeaders |-> "Content-Type, Authorization"]

\* ---------------------------------------------------------------- responses

\* res.status(status).json({error, details?, ...}); details is "absent", a
\* "string" or an "array". cause is the position in calls of the upstream call
\* whose error text the response carries (0: none).
ErrorResponse(status, error, details, cause) ==
    [status |-> status, success |-> FALSE, debug |-> FALSE, bare |-> FALSE,
     error |-> error, details |-> details, cause |-> cause, violations |-> <<>>,
     fileId |-> "", sessionToken |-> "", available |-> <<>>, households |-> <<>>,
     filename |-> <<>>, fileSize |-> 0]

\* res.status(200).json({success: true, ...})
SuccessResponse ==
    [ErrorResponse(200, "", "absent", 0) EXCEPT !.success = TRUE]

\* res.status(200).end()
BareResponse ==
    [ErrorResponse(200, "", "absent", 0) EXCEPT !.bare = TRUE]

\* A handler that answers 500 whatever status the upstream call carried.
StatusOr500_Always500(result) == 500

\* result.status || 500
StatusOr500(result) == IF result.status # 0 THEN result.status ELSE 500

\* ----------------------------------------------------------------- upstream

\* What an upstream HTTP exchange can come to: a 2xx JSON answer, a 2xx answer
\* whose body is not JSON, a non-2xx answer, or a transport failure.
UpstreamKinds == {"ok", "badJson", "http404", "http500", "network"}

HttpStatus(kind) == IF kind = "http404" THEN 404 ELSE 500

\* makeTonieApiRequest: the result object for an exchange of the given kind
\* that would carry the given JSON data.
makeTonieApiRequest(kind, data) ==
    IF kind = "ok" THEN [success |-> TRUE, status |-> 0, data |-> data]
    ELSE IF kind \in {"http404", "http500"}
        THEN [success |-> FALSE, status |-> HttpStatus(kind), data |-> data]
    ELSE [success |-> FALSE, status |-> 0, data |-> data]

\* The Tonie API endpoints the handlers call; {h} and {t} stand for the
\* household and tonie id, which a call records apart.
FilePath == "/file"
HouseholdsPath == "/households"
CreativeToniesPath == "/households/{h}/creativetonies"
FallbackPath == "/households/{h}/creative-tonies"
ChaptersPath == "/households/{h}/creativetonies/{t}/chapters"

\* One entry of calls. op is "login", "api", "s3", "getInfo" or "download".
\* token is the bearer token sent; household, tonie, title and file are the
\* parts of the endpoint and body sent; ok and status are the outcome; reply
\* is what a login (the token), POST /file (the fileId) or storage POST
\* answered; shape and items are the JSON data of a listing; exchange and
\* error are, for a login, what the login endpoint did and the kind of error
\* text the login returned; boundary and body are the multipart boundary of
\* the Content-Type header and the body of a storage POST; authorization
\* and contentType are the headers of a makeTonieApiRequest call.
Call(op, path, method, token, ok, status) ==
    [op |-> op, path |-> path, household |-> <<>>, tonie |-> <<>>, method |-> method,
     token |-> token, title |-> <<>>, file |-> "", ok |-> ok, status |-> status,
     reply |-> "", shape |-> "", items |-> <<>>, exchange |-> "", error |-> "",
     boundary |-> "", body |-> <<>>, authorization |-> <<>>, contentType |-> ""]

\* The headers makeTonieApiRequest puts into defaultOptions.
ApiHeaders(token) ==
    [Authorization |-> <<"Bearer ", token>>, ContentType |-> "application/json",
     UserAgent |-> "tonie-uploader/1.0"]

\* No options: the default of the options parameter, {}.
NoOptions == <<>>

\* A client that sets its headers only when the caller passed no options.
FetchOptions_HeadersOnlyByDefault(token, options) ==
    LET defaults == [method |-> "GET", headers |-> ApiHeaders(token)]
        bare == [method |-> "GET",
                 headers |-> [Authorization |-> <<>>, ContentType |-> "",
                              UserAgent |-> ""]]
        base == IF options = NoOptions THEN defaults ELSE bare
    IN  [k \in DOMAIN base \cup DOMAIN options |->
            IF k \in DOMAIN options THEN options[k] ELSE base[k]]

\* defaultOptions = {method: 'GET', headers: {...}, ...options}: every key
\* of options replaces the default of that key.
FetchOptions(token, options) ==
    LET defaults == [method |-> "GET", headers |-> ApiHeaders(token)]
    IN  [k \in DOMAIN defaults \cup DOMAIN options |->
            IF k \in DOMAIN options THEN options[k] ELSE defaults[k]]

\* The record of a makeTonieApiRequest call and its result: what fetch was
\* given, and what came of it.
ApiCall(path, options, token, result) ==
    LET init == FetchOptions(token, options)
        request == Call("api", path, init.method, token, result.success, result.status)
        withHeaders == [request EXCEPT !.authorization = init.headers.Authorization,
                                     !.contentType = init.headers.ContentType]
    IN  IF "body" \in DOMAIN init
        THEN [withHeaders EXCEPT !.title = init.body.title, !.file = init.body.file]
        ELSE withHeaders

\* What the login endpoint may do: a 2xx JSON answer with a token, one
\* without, a 2xx answer that is not JSON, a 401 with a JSON body, a 401 with
\* a body that is not JSON, or a transport failure.
LoginKinds == {"ok", "okNoToken", "badJson", "http401", "http401Text", "network"}
LoginTokens == {"tokA", "tokB"}

\* A login that hands out a token kept from an earlier request instead of
\* the one the token endpoint just returned.
authenticateWithTonie_CachedToken(kind, token) ==
    IF kind = "ok" THEN [success |-> TRUE, sessionToken |-> "tokA", error |-> ""]
    ELSE [success |-> FALSE, sessionToken |-> "", error |-> "network"]

\* The result object of a login: error is the kind of its error text, "http"
\* for `HTTP ${response.status}: ...`, "noToken" for 'No access token
\* received from authentication', "network" for `Network error: ...`.
LoginResult(success, sessionToken, error) ==
    [success |-> success, sessionToken |-> sessionToken, error |-> error]

\* authenticateWithTonie of utils/auth.js (OAuth2 password grant): the status
\* is looked at before the body is parsed, and a missing access_token is a
\* failure.
authenticateWithTonie(kind, token) ==
    CASE kind = "ok" -> LoginResult(TRUE, token, "")
      [] kind \in {"http401", "http401Text"} -> LoginResult(FALSE, "", "http")
      [] kind = "okNoToken" -> LoginResult(FALSE, "", "noToken")
      [] OTHER -> LoginResult(FALSE, "", "network")

\* authenticateWithTonie of api/auth.js (legacy JSON login): a 2xx JSON answer
\* is a success whether or not a cookie, token or session field was found.
\* The body is parsed before the status is looked at, so an answer that is
\* not JSON ends in the catch block whatever its status.
legacyAuthenticateWithTonie(kind, token) ==
    CASE kind = "ok" -> LoginResult(TRUE, token, "")
      [] kind = "okNoToken" -> LoginResult(TRUE, "", "")
      [] kind = "http401" -> LoginResult(FALSE, "", "http")
      [] OTHER -> LoginResult(FALSE, "", "network")

LoginCall(result, kind, token) ==
    [Call("login", "/token", "POST", "", result.success,
          IF kind \in {"http401", "http401Text"} THEN 401 ELSE 0)
        EXCEPT !.reply = IF kind = "ok" THEN token ELSE "",
               !.exchange = kind,
               !.error = result.error]

\* JSON data of POST /file: the upload target, possibly without its request
\* part, possibly null.
TargetData ==
    [fileId : {"f1", "f2"}, shape : {"full", "noRequest"}]
    \cup {[fileId |-> "", shape |-> "null"]}

NoTarget == [fileId |-> "", shape |-> "none"]

\* JSON data of a creative-tonies listing: an array, null, or something else.
TonieListings ==
    {[shape |-> "array", items |-> l] :
        l \in {<<>>, <<Tonie1>>, <<Tonie2>>, <<Tonie1, Tonie2>>}}
    \cup {[shape |-> "null", items |-> <<>>], [shape |-> "object", items |-> <<>>]}

\* What the concurrent per-household lookups of the directory listing may be
\* answered: fewer cases than above, every branch of the code still taken.
FanoutKinds == {"ok", "http404"}

FanoutListings ==
    {[shape |-> "array", items |-> <<Tonie1, Tonie2>>],
     [shape |-> "object", items |-> <<>>]}

\* Sequences over 1..MaxHouseholds without repetition, in ascending or in
\* descending order of the households' numbers.
HouseholdOrders ==
    UNION {{o \in [1..n -> 1..MaxHouseholds] :
                \/ \A i, j \in 1..n : i < j => o[i] < o[j]
                \/ \A i, j \in 1..n : i < j => o[i] > o[j]} :
           n \in 0..MaxHouseholds}

\* JSON data of the /households listing.
HouseholdListings ==
    {[shape |-> "array", items |-> [i \in DOMAIN o |-> Household(o[i])]] :
        o \in HouseholdOrders}
    \cup {[shape |-> "null", items |-> <<>>], [shape |-> "object", items |-> <<>>]}

\* What the storage endpoint answers: 2xx, non-2xx, or the fetch throws.
StorageKinds == {"ok", "http403", "http500", "network"}
\* Content of the storage endpoint's answer.
StorageReplies == {"f1", "s3-key"}

\* A search that takes the first entry whatever its id.
FindById_First(items, id) == IF items # <<>> THEN 1 ELSE 0

\* Array.prototype.find(tonie => tonie.id === id): the position, 0 if none.
FindById(items, id) ==
    IF \E i \in 1..Len(items) : items[i].id = id
    THEN CHOOSE i \in 1..Len(items) :
            items[i].id = id /\ \A j \in 1..(i - 1) : items[j].id # id
    ELSE 0

\* creativetonies.map(t => ({id: t.id, name: t.name, ...}))
Available(items) == [i \in 1..Len(items) |-> [id |-> items[i].id, name |-> items[i].name]]

\* ------------------------------------------------------------ initial state

IdleDownload ==
    [state |-> "idle", bytes |-> 0, chunks |-> 0, timer |-> FALSE,
     audio |-> "none", write |-> "none", error |-> ""]

NoVideo == [title |-> <<>>, videoId |-> <<>>]

Requests == AuthRequests \cup HouseholdsRequests \cup DeviceRequests \cup UrlRequests

Init ==
    /\ req \in Requests
    /\ pc = "start"
    /\ calls = <<>>
    /\ sent = <<>>
    /\ accessToken = ""
    /\ uploadRequest = NoTarget
    /\ fileId = ""
    /\ lookups = <<>>
    /\ primaryStatus = 0
    /\ video = NoVideo
    /\ filename = <<>>
    /\ tempFilePath = NoPath
    /\ tmpFile = "absent"
    /\ unlinks = 0
    /\ download = IdleDownload
    /\ fileSize = 0
    /\ headers = NoHeaders
    /\ log = <<>>

\* ------------------------------------------------------- handler plumbing

\* After a response inside the URL handler's try block the finally block still
\* runs; it awaits unlink only when tempFilePath was assigned.
CleanupNeeded(path) == path # NoPath

\* A return that leaves the handler without running its finally block.
AfterResponse_SkipsFinally == "done"

AfterResponse ==
    IF req.handler = "url" /\ CleanupNeeded(tempFilePath) THEN "finally" ELSE "done"

\* Send a response and leave the handler (return, or fall out of try/catch).
Finish(response) ==
    /\ sent' = Append(sent, response)
    /\ pc' = AfterResponse

\* A handler that goes on whatever the login returned.
LoginFailed_Never(tonieAuth) == FALSE

\* if (!tonieAuth.success)
LoginFailed(tonieAuth) == ~tonieAuth.success

\* A handler that goes on whatever the API call returned.
ApiFailed_Never(result) == FALSE

\* if (!result.success)
ApiFailed(result) == ~result.success

\* ------------------------------------------------- device upload: the handler



\* ------------------------------------------------------------------- logging

\* What the handlers print in place of the appPassword value.
MASK == "***"

\* One request field written to the log: the statement, the field, the text.
LogEntry(at, field, value) == [at |-> at, field |-> field, value |-> value]

\* parseMultipartData: console.log(`Field ${fieldName}: ${fields[fieldName]}`)
\* for every regular field of the body.
FieldLog(r) ==
    (IF r.appPassword # ""
        THEN <<LogEntry("upload-file.js:120", "appPassword", r.appPassword)>> ELSE <<>>)
    \o (IF r.tonieId # <<>>
        THEN <<LogEntry("upload-file.js:120", "tonieId", r.tonieId)>> ELSE <<>>)
    \o (IF r.title # <<>>
        THEN <<LogEntry("upload-file.js:120", "title", r.title)>> ELSE <<>>)

\* The device upload: the decoder's field lines, then
\* console.log('Parsed fields:', { appPassword: '***', tonieId, title, ... }).
DeviceLog(r) ==
    IF r.method = "POST" /\ IsMultipart(r.contentType) /\ r.bodyReadOk
        /\ HasBoundary(r.contentType)
    THEN FieldLog(r)
         \o <<LogEntry("upload-file.js:246", "appPassword", MASK),
              LogEntry("upload-file.js:246", "tonieId", r.tonieId),
              LogEntry("upload-file.js:246", "title", r.title)>>
    ELSE <<>>

\* The URL upload:
\* console.log('YouTube upload request:', { tonieId, title, url: url ? 'provided' : 'missing' })
UrlLog(r) ==
    IF r.method = "POST" /\ r.hasBody
    THEN <<LogEntry("upload-from-youtube.js:235", "tonieId", r.tonieId),
           LogEntry("upload-from-youtube.js:235", "title", r.title),
           LogEntry("upload-from-youtube.js:235", "url",
                    IF r.url # "" THEN "provided" ELSE "missing")>>
    ELSE <<>>

\* A handler whose debug bypass sits in front of the file validation.
DeviceReceive_DebugBeforeValidation ==
    /\ pc = "start"
    /\ req.handler = "device"
    /\ LET errors == validateFile(req.fileSize, req.filename, MAX_FILE_SIZE_DEVICE)
       IN
       IF req.method = "OPTIONS" THEN Finish(BareResponse)
       ELSE IF req.method # "POST"
           THEN Finish(ErrorResponse(405, "Method not allowed", "absent", 0))
       ELSE IF ~IsMultipart(req.contentType)
           THEN Finish(ErrorResponse(400,
                    "Invalid content type. Expected multipart/form-data", "absent", 0))
       ELSE IF ~req.bodyReadOk
           THEN Finish(ErrorResponse(400, "Failed to read request body", "string", 0))
       ELSE IF ~HasBoundary(req.contentType)
           THEN Finish(ErrorResponse(400, "Failed to parse multipart data", "string", 0))
       ELSE IF req.appPassword = "" \/ req.tonieId = <<>> \/ req.title = <<>>
               \/ ~req.hasFile
           THEN Finish(ErrorResponse(400,
                    "Missing required fields: appPassword, tonieId, title, and file are required",
                    "absent", 0))
       ELSE IF ~verifyAppPassword(req.appPassword)
           THEN Finish(ErrorResponse(401, "Invalid app password", "absent", 0))
       ELSE IF IsDebugTitle(req.title)
           THEN Finish([SuccessResponse EXCEPT !.debug = TRUE,
                            !.filename = req.filename, !.fileSize = req.fileSize])
       ELSE IF Len(errors) > 0
           THEN Finish([ErrorResponse(400, "File validation failed", "array", 0)
                            EXCEPT !.violations = errors])
       ELSE /\ pc' = "login"
            /\ sent' = sent
    /\ headers' = setCorsHeaders
    /\ log' = log \o DeviceLog(req)
    /\ UNCHANGED <<req, calls, accessToken, uploadRequest, fileId, lookups,
                   primaryStatus, urlVars>>

\* upload-file.js from the entry to the first upstream call: method checks,
\* content type, body read, multipart decode, required fields, gate,
\* validation, debug bypass.
DeviceReceive ==
    /\ pc = "start"
    /\ req.handler = "device"
    /\ LET errors == validateFile(req.fileSize, req.filename, MAX_FILE_SIZE_DEVICE)
       IN
       IF req.method = "OPTIONS" THEN Finish(BareResponse)
       ELSE IF req.method # "POST"
           THEN Finish(ErrorResponse(405, "Method not allowed", "absent", 0))
       ELSE IF ~IsMultipart(req.contentType)
           THEN Finish(ErrorResponse(400,
                    "Invalid content type. Expected multipart/form-data", "absent", 0))
       ELSE IF ~req.bodyReadOk
           THEN Finish(ErrorResponse(400, "Failed to read request body", "string", 0))
       ELSE IF ~HasBoundary(req.contentType)
           THEN Finish(ErrorResponse(400, "Failed to parse multipart data", "string", 0))
       ELSE IF req.appPassword = "" \/ req.tonieId = <<>> \/ req.title = <<>>
               \/ ~req.hasFile
           THEN Finish(ErrorResponse(400,
                    "Missing required fields: appPassword, tonieId, title, and file are required",
                    "absent", 0))
       ELSE IF ~verifyAppPassword(req.appPassword)
           THEN Finish(ErrorResponse(401, "Invalid app password", "absent", 0))
       ELSE IF Len(errors) > 0
           THEN Finish([ErrorResponse(400, "File validation failed", "array", 0)
                            EXCEPT !.violations = errors])
       ELSE IF IsDebugTitle(req.title)
           THEN Finish([SuccessResponse EXCEPT !.debug = TRUE,
                            !.filename = req.filename, !.fileSize = req.fileSize])
       ELSE /\ pc' = "login"
            /\ sent' = sent
    /\ headers' = setCorsHeaders
    /\ log' = log \o DeviceLog(req)
    /\ UNCHANGED <<req, calls, accessToken, uploadRequest, fileId, lookups,
                   primaryStatus, urlVars>>

\* await authenticateWithTonie() of the two upload handlers and what follows
\* it up to the POST /file call.
UploadLogin(handler) ==
    /\ pc = "login"
    /\ req.handler = handler
    /\ \E kind \in LoginKinds, token \in LoginTokens :
        LET tonieAuth == authenticateWithTonie(kind, token)
        IN  /\ calls' = Append(calls, LoginCall(tonieAuth, kind, token))
            /\ IF LoginFailed(tonieAuth)
               THEN /\ Finish(ErrorResponse(401, "Failed to authenticate with Tonie API",
                                            "string", Len(calls) + 1))
                    /\ accessToken' = accessToken
               ELSE /\ accessToken' = tonieAuth.sessionToken
                    /\ pc' = "file"
                    /\ sent' = sent
    /\ UNCHANGED <<req, headers, log, uploadRequest, fileId, lookups, primaryStatus, urlVars>>

DeviceLogin == UploadLogin("device")

\* await makeTonieApiRequest('/file', accessToken, {method: 'POST'}) of the two
\* upload handlers and what follows it up to the storage POST. Reading
\* uploadRequest.fileId of a null target throws into the outer catch.
UploadAcquireTarget(handler) ==
    /\ pc = "file"
    /\ req.handler = handler
    /\ \E kind \in UpstreamKinds, data \in TargetData :
        LET uploadRequestResult == makeTonieApiRequest(kind, data)
        IN  /\ calls' = Append(calls,
                    [ApiCall(FilePath, [method |-> "POST"], accessToken,
                             uploadRequestResult)
                        EXCEPT !.reply = IF kind = "ok" THEN data.fileId ELSE ""])
            /\ IF ApiFailed(uploadRequestResult)
               THEN /\ Finish(ErrorResponse(StatusOr500(uploadRequestResult),
                                "Failed to get upload URL from Tonie API", "string",
                                Len(calls) + 1))
                    /\ uploadRequest' = uploadRequest
               ELSE IF uploadRequestResult.data.shape = "null"
               THEN /\ Finish(ErrorResponse(500, "Internal server error", "string", 0))
                    /\ uploadRequest' = uploadRequest
               ELSE /\ uploadRequest' = uploadRequestResult.data
                    /\ pc' = "s3"
                    /\ sent' = sent
    /\ UNCHANGED <<req, headers, log, accessToken, fileId, lookups, primaryStatus, urlVars>>

DeviceAcquireTarget == UploadAcquireTarget("device")

\* An uploadToS3 that returns an identifier read from the storage answer.
uploadToS3_ReturnsReply(target, kind, reply) ==
    IF target.shape # "full" THEN [threw |-> TRUE, fetched |-> FALSE, fileId |-> ""]
    ELSE IF kind # "ok" THEN [threw |-> TRUE, fetched |-> TRUE, fileId |-> ""]
    ELSE [threw |-> FALSE, fetched |-> TRUE, fileId |-> reply]

\* An uploadToS3 that does not look at response.ok.
uploadToS3_IgnoresStatus(target, kind, reply) ==
    IF target.shape # "full" THEN [threw |-> TRUE, fetched |-> FALSE, fileId |-> ""]
    ELSE IF kind = "network" THEN [threw |-> TRUE, fetched |-> TRUE, fileId |-> ""]
    ELSE [threw |-> FALSE, fetched |-> TRUE, fileId |-> target.fileId]

\* uploadToS3 for a storage exchange of the given kind and reply content:
\* whether it threw, whether the POST was sent, and the fileId it returned.
\* A target without its request part throws before the POST is sent.
uploadToS3(target, kind, reply) ==
    IF target.shape # "full" THEN [threw |-> TRUE, fetched |-> FALSE, fileId |-> ""]
    ELSE IF kind # "ok" THEN [threw |-> TRUE, fetched |-> TRUE, fileId |-> ""]
    ELSE [threw |-> FALSE, fetched |-> TRUE, fileId |-> target.fileId]

StorageCall(kind, reply) ==
    [Call("s3", "presigned-url", "POST", "", kind = "ok",
          CASE kind = "ok" -> 200 [] kind = "http403" -> 403
            [] kind = "http500" -> 500 [] OTHER -> 0)
        EXCEPT !.reply = reply]

\* await uploadToS3(uploadRequest, fileData, filename) of the two upload
\* handlers, its catch block, and what follows up to the next upstream call.
UploadStorage(handler, next) ==
    /\ pc = "s3"
    /\ req.handler = handler
    /\ \E kind \in StorageKinds, reply \in StorageReplies :
        LET up == uploadToS3(uploadRequest, kind, reply)
        IN  /\ calls' = IF up.fetched THEN Append(calls, StorageCall(kind, reply))
                        ELSE calls
            /\ IF up.threw
               THEN /\ Finish(ErrorResponse(500, "Failed to upload file to storage",
                                "string", IF up.fetched THEN Len(calls) + 1 ELSE 0))
                    /\ fileId' = fileId
               ELSE /\ fileId' = up.fileId
                    /\ pc' = next
                    /\ sent' = sent
    /\ UNCHANGED <<req, headers, log, accessToken, uploadRequest, lookups, primaryStatus, urlVars>>

DeviceStorageUpload == UploadStorage("device", "tonies")

ListingCall(path, household, token, result) ==
    [ApiCall(path, NoOptions, token, result)
        EXCEPT !.household = household,
               !.shape = IF result.success THEN result.data.shape ELSE "",
               !.items = IF result.success THEN result.data.items ELSE <<>>]

\* householdResult.data || []
DataOrEmpty(data) == IF data.shape = "null" THEN <<>> ELSE data.items

\* Array.isArray(data) ? data : []
ArrayOrEmpty(data) == IF data.shape = "array" THEN data.items ELSE <<>>

NotFoundResponse(items) ==
    [ErrorResponse(404, "Creative-Tonie not found", "string", 0)
        EXCEPT !.available = Available(items)]

\* Device upload: the creative-tonies listing of the household and the search
\* for the target. A result that is not an array makes find throw into the
\* catch block of the storage upload.
DeviceVerifyTonie ==
    /\ pc = "tonies"
    /\ req.handler = "device"
    /\ \E kind \in UpstreamKinds, data \in TonieListings :
        LET householdResult == makeTonieApiRequest(kind, data)
            creativetonies == DataOrEmpty(householdResult.data)
        IN  /\ calls' = Append(calls,
                    ListingCall(CreativeToniesPath,
                                householdId(req.tonieId), accessToken, householdResult))
            /\ IF ApiFailed(householdResult)
               THEN Finish(ErrorResponse(StatusOr500(householdResult),
                        "Failed to verify Creative-Tonie exists", "string",
                        Len(calls) + 1))
               ELSE IF householdResult.data.shape = "object"
               THEN Finish(ErrorResponse(500, "Failed to upload file to storage",
                        "string", 0))
               ELSE IF FindById(creativetonies, creativeTonnieId(req.tonieId)) = 0
               THEN Finish(NotFoundResponse(creativetonies))
               ELSE /\ pc' = "chapter"
                    /\ sent' = sent
    /\ UNCHANGED <<req, headers, log, accessToken, uploadRequest, fileId, lookups, primaryStatus,
                   urlVars>>


\* ---------------------------------------------------------------- claim C32

\* A chapter call that leaves the file out of its body.
ChapterCall_TitleOnly(result) ==
    [ApiCall(ChaptersPath, [method |-> "POST", body |-> [title |-> req.title, file |-> ""]],
             accessToken, result)
        EXCEPT !.household = householdId(req.tonieId),
               !.tonie = creativeTonnieId(req.tonieId)]

ChapterCall(result) ==
    [ApiCall(ChaptersPath,
             [method |-> "POST", body |-> [title |-> req.title, file |-> fileId]],
             accessToken, result)
        EXCEPT !.household = householdId(req.tonieId),
               !.tonie = creativeTonnieId(req.tonieId)]

\* The chapter registration of the two upload handlers and the final response.
UploadAddChapter(handler) ==
    /\ pc = "chapter"
    /\ req.handler = handler
    /\ \E kind \in UpstreamKinds :
        LET addChapterResult == makeTonieApiRequest(kind, "chapter")
        IN  /\ calls' = Append(calls, ChapterCall(addChapterResult))
            /\ IF ApiFailed(addChapterResult)
               THEN Finish(ErrorResponse(StatusOr500(addChapterResult),
                        "Failed to add chapter to Creative-Tonie", "string",
                        Len(calls) + 1))
               ELSE Finish([SuccessResponse EXCEPT !.fileId = fileId,
                        !.filename = IF handler = "url" THEN filename ELSE <<>>,
                        !.fileSize = IF handler = "url" THEN fileSize ELSE 0])
    /\ UNCHANGED <<req, headers, log, accessToken, uploadRequest, fileId, lookups, primaryStatus,
                   urlVars>>

DeviceAddChapter == UploadAddChapter("device")

\* ------------------------------------------------------------- api/auth.js

\* api/auth.js from the entry to the login call.
AuthReceive ==
    /\ pc = "start"
    /\ req.handler = "auth"
    /\ IF req.method = "OPTIONS" THEN Finish(BareResponse)
       ELSE IF req.method # "POST"
           THEN Finish(ErrorResponse(405, "Method not allowed", "absent", 0))
       ELSE IF ~req.hasBody
           THEN Finish(ErrorResponse(500, "Internal server error", "string", 0))
       ELSE IF AuthGateRejects(req.appPassword)
           THEN Finish(ErrorResponse(401, "Invalid app password", "absent", 0))
       ELSE IF req.action = "verify" THEN Finish(SuccessResponse)
       ELSE IF req.action = "tonie-login"
           THEN /\ pc' = "login"
                /\ sent' = sent
       ELSE Finish(ErrorResponse(400, "Invalid action. Use \"verify\" or \"tonie-login\"",
                                 "absent", 0))
    /\ headers' = AuthCorsHeaders
    /\ log' = log
    /\ UNCHANGED <<req, calls, accessToken, uploadRequest, fileId, lookups,
                   primaryStatus, urlVars>>

\* The tonie-login action: await authenticateWithTonie() and the response.
AuthLogin ==
    /\ pc = "login"
    /\ req.handler = "auth"
    /\ \E kind \in LoginKinds, token \in LoginTokens :
        LET tonieAuth == legacyAuthenticateWithTonie(kind, token)
        IN  /\ calls' = Append(calls, LoginCall(tonieAuth, kind, token))
            /\ IF tonieAuth.success
               THEN Finish([SuccessResponse EXCEPT !.sessionToken = tonieAuth.sessionToken])
               ELSE Finish(ErrorResponse(401, "Failed to authenticate with Tonie API",
                                         "string", Len(calls) + 1))
    /\ UNCHANGED <<req, headers, log, accessToken, uploadRequest, fileId, lookups, primaryStatus,
                   urlVars>>

\* -------------------------------------------------------- api/households.js

\* if (!accessToken) after accessToken = sessionToken
NeedsLogin(sessionToken) == sessionToken = ""

\* A households handler that lets GET requests through its method check.
HouseholdsReceive_ServesGet ==
    /\ pc = "start"
    /\ req.handler = "households"
    /\ IF req.method = "OPTIONS" THEN Finish(BareResponse) /\ accessToken' = accessToken
       ELSE IF req.method \notin {"POST", "GET"}
           THEN /\ Finish(ErrorResponse(405, "Method not allowed", "absent", 0))
                /\ accessToken' = accessToken
       ELSE IF ~req.hasBody
           THEN /\ Finish(ErrorResponse(500, "Internal server error", "string", 0))
                /\ accessToken' = accessToken
       ELSE IF ~verifyAppPassword(req.appPassword)
           THEN /\ Finish(ErrorResponse(401, "Invalid app password", "absent", 0))
                /\ accessToken' = accessToken
       ELSE IF NeedsLogin(req.sessionToken)
           THEN /\ pc' = "login"
                /\ sent' = sent
                /\ accessToken' = accessToken
       ELSE /\ pc' = "households"
            /\ sent' = sent
            /\ accessToken' = req.sessionToken
    /\ headers' = setCorsHeaders
    /\ log' = log
    /\ UNCHANGED <<req, calls, uploadRequest, fileId, lookups, primaryStatus, urlVars>>

\* api/households.js from the entry to the first upstream call.
HouseholdsReceive ==
    /\ pc = "start"
    /\ req.handler = "households"
    /\ IF req.method = "OPTIONS" THEN Finish(BareResponse) /\ accessToken' = accessToken
       ELSE IF req.method # "POST"
           THEN /\ Finish(ErrorResponse(405, "Method not allowed", "absent", 0))
                /\ accessToken' = accessToken
       ELSE IF ~req.hasBody
           THEN /\ Finish(ErrorResponse(500, "Internal server error", "string", 0))
                /\ accessToken' = accessToken
       ELSE IF ~verifyAppPassword(req.appPassword)
           THEN /\ Finish(ErrorResponse(401, "Invalid app password", "absent", 0))
                /\ accessToken' = accessToken
       ELSE IF NeedsLogin(req.sessionToken)
           THEN /\ pc' = "login"
                /\ sent' = sent
                /\ accessToken' = accessToken
       ELSE /\ pc' = "households"
            /\ sent' = sent
            /\ accessToken' = req.sessionToken
    /\ headers' = setCorsHeaders
    /\ log' = log
    /\ UNCHANGED <<req, calls, uploadRequest, fileId, lookups, primaryStatus, urlVars>>

\* await authenticateWithTonie() and what follows it up to the /households call.
HouseholdsLogin ==
    /\ pc = "login"
    /\ req.handler = "households"
    /\ \E kind \in LoginKinds, token \in LoginTokens :
        LET tonieAuth == authenticateWithTonie(kind, token)
        IN  /\ calls' = Append(calls, LoginCall(tonieAuth, kind, token))
            /\ IF LoginFailed(tonieAuth)
               THEN /\ Finish(ErrorResponse(401, "Failed to authenticate with Tonie API",
                                            "string", Len(calls) + 1))
                    /\ accessToken' = accessToken
               ELSE /\ accessToken' = tonieAuth.sessionToken
                    /\ pc' = "households"
                    /\ sent' = sent
    /\ UNCHANGED <<req, headers, log, uploadRequest, fileId, lookups, primaryStatus, urlVars>>

\* One element of households.map(async ...): the household, where its lookup
\* stands ("primary" or "fallback" request in flight, or "done"), its tonies.
Lookup(household) == [household |-> household, st |-> "primary", tonies |-> <<>>]

\* await makeTonieApiRequest('/households', accessToken), then the start of
\* every element of households.map(async ...): each runs up to its first
\* await, so all primary listing requests are in flight together.
HouseholdsList ==
    /\ pc = "households"
    /\ req.handler = "households"
    /\ \E kind \in UpstreamKinds, data \in HouseholdListings :
        LET householdsResult == makeTonieApiRequest(kind, data)
        IN  /\ calls' = Append(calls, ListingCall(HouseholdsPath, <<>>, accessToken,
                                                   householdsResult))
            /\ IF ApiFailed(householdsResult)
               THEN /\ Finish(ErrorResponse(StatusOr500(householdsResult),
                                "Failed to fetch households", "string", Len(calls) + 1))
                    /\ lookups' = lookups
               ELSE IF householdsResult.data.shape # "array"
               THEN /\ Finish(ErrorResponse(500, "Internal server error", "string", 0))
                    /\ lookups' = lookups
               ELSE /\ lookups' = [i \in DOMAIN householdsResult.data.items |->
                                       Lookup(householdsResult.data.items[i])]
                    /\ pc' = "fanout"
                    /\ sent' = sent
    /\ UNCHANGED <<req, headers, log, accessToken, uploadRequest, fileId, primaryStatus, urlVars>>

\* The primary listing request of household i returns.
HouseholdPrimary(i) ==
    /\ pc = "fanout"
    /\ lookups[i].st = "primary"
    /\ \E kind \in FanoutKinds, data \in FanoutListings :
        LET result == makeTonieApiRequest(kind, data)
        IN  /\ calls' = Append(calls,
                    ListingCall(CreativeToniesPath,
                                lookups[i].household.id, accessToken, result))
            /\ lookups' =
                 IF ApiFailed(result)
                 THEN [lookups EXCEPT ![i].st = "fallback"]
                 ELSE [lookups EXCEPT ![i].st = "done",
                                      ![i].tonies = Available(ArrayOrEmpty(result.data))]
    /\ UNCHANGED <<req, headers, log, pc, sent, accessToken, uploadRequest, fileId, primaryStatus,
                   urlVars>>

\* The fallback (hyphenated) listing request of household i returns.
HouseholdFallback(i) ==
    /\ pc = "fanout"
    /\ lookups[i].st = "fallback"
    /\ \E kind \in FanoutKinds, data \in FanoutListings :
        LET fallbackResult == makeTonieApiRequest(kind, data)
        IN  /\ calls' = Append(calls,
                    ListingCall(FallbackPath,
                                lookups[i].household.id, accessToken, fallbackResult))
            /\ lookups' =
                 IF ApiFailed(fallbackResult)
                 THEN [lookups EXCEPT ![i].st = "done"]
                 ELSE [lookups EXCEPT ![i].st = "done",
                           ![i].tonies = Available(ArrayOrEmpty(fallbackResult.data))]
    /\ UNCHANGED <<req, headers, log, pc, sent, accessToken, uploadRequest, fileId, primaryStatus,
                   urlVars>>

\* A join that returns the households in the order their lookups completed.
HouseholdsJoin_CompletionOrder ==
    /\ pc = "fanout"
    /\ \A i \in DOMAIN lookups : lookups[i].st = "done"
    /\ LET completed == SelectSeq(calls, LAMBDA c :
               /\ c.op = "api"
               /\ \/ c.path = CreativeToniesPath /\ c.ok
                  \/ c.path = FallbackPath)
           at(k) == CHOOSE i \in DOMAIN lookups :
                        lookups[i].household.id = completed[k].household
       IN  Finish([SuccessResponse EXCEPT !.households =
               [k \in DOMAIN completed |->
                   [id |-> lookups[at(k)].household.id,
                    name |-> lookups[at(k)].household.name,
                    creativeTonies |-> lookups[at(k)].tonies]]])
    /\ UNCHANGED <<req, headers, log, calls, accessToken, uploadRequest, fileId, lookups,
                   primaryStatus, urlVars>>

\* Promise.all resolves once every element has; the 200 response.
HouseholdsJoin ==
    /\ pc = "fanout"
    /\ \A i \in DOMAIN lookups : lookups[i].st = "done"
    /\ Finish([SuccessResponse EXCEPT !.households =
            [i \in DOMAIN lookups |->
                [id |-> lookups[i].household.id, name |-> lookups[i].household.name,
                 creativeTonies |-> lookups[i].tonies]]])
    /\ UNCHANGED <<req, headers, log, calls, accessToken, uploadRequest, fileId, lookups,
                   primaryStatus, urlVars>>

\* ------------------------------------------------ api/upload-from-youtube.js

\* The characters title.replace(/[^a-zA-Z0-9\s\-\_\(\)]/g, '') keeps.
IsFilenameChar(c) ==
    \/ c \in Range(LowerCase) \/ c \in Range(UpperCase) \/ c \in Digits
    \/ c \in Whitespace \/ c \in {"-", "_", "(", ")"}

\* cleanFilename(title, videoId)
cleanFilename(title, videoId) ==
    LET cleaned == Trim(SelectSeq(title, IsFilenameChar))
        maxTitleLength == MAX_FILENAME_LENGTH - Len(videoId) - 20
        truncatedTitle == IF Len(cleaned) > maxTitleLength
                          THEN Trim(Substring0(cleaned, maxTitleLength))
                          ELSE cleaned
    IN  truncatedTitle \o <<" ", "(">> \o videoId \o <<")", ".", "m", "4", "a">>

VideoId == Repeat("v", 11)

\* A videoId so long that " (videoId).m4a" alone exceeds the filename limit.
LongVideoId == Repeat("v", MAX_FILENAME_LENGTH - 6)

\* videoInfo values ytdl.getInfo may resolve to.
Videos ==
    { [title |-> t, videoId |-> VideoId] :
        t \in { <<"M", "y", " ", "S", "o", "n", "g", "!">>,
                Repeat("a", MAX_FILENAME_LENGTH + 2) } }
    \cup { [title |-> <<"M", "y">>, videoId |-> LongVideoId] }

\* ytdl.getInfo: it resolves ("ok"), resolves with isLiveContent or isPrivate
\* set, or rejects.
InfoKinds == {"ok", "live", "private", "error"}

\* A getVideoInfo that looks at neither isLiveContent nor isPrivate.
getVideoInfoThrows_OnlyOnError(kind) == kind = "error"

\* getVideoInfo throws: ytdl.getInfo rejected, or the video details have
\* isLiveContent or isPrivate set.
getVideoInfoThrows(kind) == kind \in {"live", "private", "error"}

\* Lengths of the data chunks the audio stream may emit.
ChunkLengths == {1, MAX_FILE_SIZE_URL}

\* tempFilePath = path.join('/tmp', `youtube_${Date.now()}_${videoId}.m4a`)
TempPath == "/tmp/youtube.m4a"

\* api/upload-from-youtube.js from the entry to the ytdl.getInfo call.
UrlReceive ==
    /\ pc = "start"
    /\ req.handler = "url"
    /\ IF req.method = "OPTIONS" THEN Finish(BareResponse)
       ELSE IF req.method # "POST"
           THEN Finish(ErrorResponse(405, "Method not allowed", "absent", 0))
       ELSE IF ~req.hasBody
           THEN Finish(ErrorResponse(500, "Internal server error", "string", 0))
       ELSE IF req.appPassword = "" \/ req.tonieId = <<>> \/ req.title = <<>>
               \/ req.url = ""
           THEN Finish(ErrorResponse(400, "Missing required fields", "string", 0))
       ELSE IF ~verifyAppPassword(req.appPassword)
           THEN Finish(ErrorResponse(401, "Invalid app password", "absent", 0))
       ELSE IF req.url # "https://youtu.be/v"
           THEN Finish(ErrorResponse(400, "Invalid YouTube URL", "string", 0))
       ELSE /\ pc' = "getInfo"
            /\ sent' = sent
    /\ headers' = setCorsHeaders
    /\ log' = log \o UrlLog(req)
    /\ UNCHANGED <<req, calls, accessToken, uploadRequest, fileId, lookups,
                   primaryStatus, urlVars>>

\* new Promise(...) of downloadYouTubeAudio up to audioStream.pipe(writeStream):
\* both streams exist and the deadline timer is armed. opened tells whether
\* fs.createWriteStream could open (create) the file.
StartedDownload(opened) ==
    [state |-> "pending", bytes |-> 0, chunks |-> 0, timer |-> TRUE,
     audio |-> "flowing", write |-> IF opened THEN "open" ELSE "failing", error |-> ""]

\* await getVideoInfo(url) and what follows it: filename generation, the
\* filename validation, the temporary path, the start of the download.
UrlGetInfo ==
    /\ pc = "getInfo"
    /\ req.handler = "url"
    /\ \E kind \in InfoKinds, info \in Videos, opened \in BOOLEAN :
        LET name == cleanFilename(info.title, info.videoId)
            validationErrors == validateFile(0, name, MAX_FILE_SIZE_URL)
            infoCall == [Call("getInfo", req.url, "GET", "", ~getVideoInfoThrows(kind), 0)
                            EXCEPT !.exchange = kind]
            downloadCall == Call("download", req.url, "GET", "", TRUE, 0)
        IN  /\ calls' = IF ~getVideoInfoThrows(kind) /\ Len(validationErrors) <= 1
                        THEN calls \o <<infoCall, downloadCall>>
                        ELSE Append(calls, infoCall)
            /\ IF getVideoInfoThrows(kind)
               THEN /\ Finish(ErrorResponse(400, "Failed to get video information",
                                            "string", Len(calls) + 1))
                    /\ UNCHANGED urlVars
               ELSE IF Len(validationErrors) > 1
               THEN /\ Finish([ErrorResponse(400, "File validation failed", "array", 0)
                            EXCEPT !.violations =
                                SelectSeq(validationErrors, LAMBDA e : e.rule # "size")])
                    /\ video' = info
                    /\ filename' = name
                    /\ UNCHANGED <<tempFilePath, tmpFile, unlinks, download, fileSize>>
               ELSE /\ video' = info
                    /\ filename' = name
                    /\ tempFilePath' = TempPath
                    /\ download' = StartedDownload(opened)
                    /\ tmpFile' = IF opened THEN "exists" ELSE "absent"
                    /\ pc' = "download"
                    /\ sent' = sent
                    /\ UNCHANGED <<unlinks, fileSize>>
    /\ UNCHANGED <<req, headers, log, accessToken, uploadRequest, fileId, lookups, primaryStatus>>


\* A promise whose state follows the last resolve or reject call.
Settle_LastWins(d, state, error) == [d EXCEPT !.state = state, !.error = error]

\* resolve / reject of the download promise: only the first one counts.
Settle(d, state, error) ==
    IF d.state = "pending" THEN [d EXCEPT !.state = state, !.error = error] ELSE d


\* A data callback that compares the count with the ceiling before adding the
\* chunk to it.
OnData_ChecksBeforeCounting(d, n) ==
    LET counted == [d EXCEPT !.bytes = @ + n, !.chunks = @ + 1]
    IN  IF d.bytes > MAX_FILE_SIZE_URL
        THEN Settle([counted EXCEPT !.audio = "destroyed", !.write = "destroyed",
                                    !.timer = FALSE],
                    "rejected", "Download aborted: File size exceeds 512MB limit")
        ELSE counted

\* What the 'data' callback does to the download when a chunk of n bytes
\* arrives: count it, and abort when the count is over the ceiling.
OnData(d, n) ==
    LET counted == [d EXCEPT !.bytes = @ + n, !.chunks = @ + 1]
    IN  IF counted.bytes > MAX_FILE_SIZE_URL
        THEN Settle([counted EXCEPT !.audio = "destroyed", !.write = "destroyed",
                                    !.timer = FALSE],
                    "rejected", "Download aborted: File size exceeds 512MB limit")
        ELSE counted

\* The 'finish' callback of the write stream.
OnFinish(d) == Settle([d EXCEPT !.write = "finished", !.timer = FALSE], "resolved", "")

\* The 'error' callback of the source stream.
OnSourceError(d, message) ==
    Settle([d EXCEPT !.audio = "errored", !.write = "destroyed", !.timer = FALSE],
           "rejected", message)

\* The 'error' callback of the write stream.
OnWriteError(d) ==
    Settle([d EXCEPT !.write = "errored", !.timer = FALSE, !.audio = "destroyed"],
           "rejected", "File write error")

\* The deadline callback.
OnTimeout(d) ==
    Settle([d EXCEPT !.audio = "destroyed", !.write = "destroyed", !.timer = FALSE],
           "rejected", "Download timeout after 60 seconds")

\* A data handler that counts the chunk and never looks at the ceiling.
DownloadData_NoSizeCheck ==
    /\ download.audio = "flowing"
    /\ download.chunks < MaxChunks
    /\ \E n \in ChunkLengths :
        download' = [download EXCEPT !.bytes = @ + n, !.chunks = @ + 1]
    /\ UNCHANGED <<req, headers, log, pc, calls, sent, accessToken, uploadRequest, fileId, lookups,
                   primaryStatus, video, filename, tempFilePath, tmpFile, unlinks,
                   fileSize>>

\* audioStream.on('data'): count the chunk, abort when over the ceiling.
DownloadData ==
    /\ download.audio = "flowing"
    /\ download.chunks < MaxChunks
    /\ \E n \in ChunkLengths : download' = OnData(download, n)
    /\ UNCHANGED <<req, headers, log, pc, calls, sent, accessToken, uploadRequest, fileId, lookups,
                   primaryStatus, video, filename, tempFilePath, tmpFile, unlinks,
                   fileSize>>

\* The source ends: pipe ends the write stream once everything is written.
DownloadSourceEnd ==
    /\ download.audio = "flowing"
    /\ download' = [download EXCEPT !.audio = "ended"]
    /\ UNCHANGED <<req, headers, log, pc, calls, sent, accessToken, uploadRequest, fileId, lookups,
                   primaryStatus, video, filename, tempFilePath, tmpFile, unlinks,
                   fileSize>>

\* writeStream.on('finish')
DownloadFinish ==
    /\ download.audio = "ended"
    /\ download.write = "open"
    /\ download' = OnFinish(download)
    /\ UNCHANGED <<req, headers, log, pc, calls, sent, accessToken, uploadRequest, fileId, lookups,
                   primaryStatus, video, filename, tempFilePath, tmpFile, unlinks,
                   fileSize>>

\* audioStream.on('error')
DownloadSourceError ==
    /\ download.audio = "flowing"
    /\ \E message \in {"Video access forbidden", "Video not found", "Download failed"} :
        download' = OnSourceError(download, message)
    /\ UNCHANGED <<req, headers, log, pc, calls, sent, accessToken, uploadRequest, fileId, lookups,
                   primaryStatus, video, filename, tempFilePath, tmpFile, unlinks,
                   fileSize>>

\* writeStream.on('error')
DownloadWriteError ==
    /\ download.write \in {"open", "failing"}
    /\ download' = OnWriteError(download)
    /\ UNCHANGED <<req, headers, log, pc, calls, sent, accessToken, uploadRequest, fileId, lookups,
                   primaryStatus, video, filename, tempFilePath, tmpFile, unlinks,
                   fileSize>>

\* A deadline callback that rejects but leaves both streams running.
DownloadTimeout_KeepsStreams ==
    /\ download.timer
    /\ download' = Settle([download EXCEPT !.timer = FALSE],
                          "rejected", "Download timeout after 60 seconds")
    /\ UNCHANGED <<req, headers, log, pc, calls, sent, accessToken, uploadRequest, fileId, lookups,
                   primaryStatus, video, filename, tempFilePath, tmpFile, unlinks,
                   fileSize>>

\* The setTimeout callback of the 60 second deadline.
DownloadTimeout ==
    /\ download.timer
    /\ download' = OnTimeout(download)
    /\ UNCHANGED <<req, headers, log, pc, calls, sent, accessToken, uploadRequest, fileId, lookups,
                   primaryStatus, video, filename, tempFilePath, tmpFile, unlinks,
                   fileSize>>

\* The handler resumes after await downloadYouTubeAudio(...): the catch block
\* of a rejected download, or the final validation, readFile, and the start
\* of the login.
UrlAfterDownload ==
    /\ pc = "download"
    /\ req.handler = "url"
    /\ download.state # "pending"
    /\ LET finalValidationErrors ==
               validateFile(download.bytes, filename, MAX_FILE_SIZE_URL)
       IN
       IF download.state = "rejected"
       THEN /\ Finish(ErrorResponse(400, "Failed to download YouTube audio", "string",
                                    Len(calls)))
            /\ fileSize' = fileSize
       ELSE IF Len(finalValidationErrors) > 0
       THEN /\ Finish([ErrorResponse(400, "Downloaded file validation failed", "array", 0)
                          EXCEPT !.violations = finalValidationErrors])
            /\ fileSize' = download.bytes
       ELSE IF tmpFile # "exists"
       THEN /\ Finish(ErrorResponse(500, "Internal server error", "string", 0))
            /\ fileSize' = download.bytes
       ELSE /\ fileSize' = download.bytes
            /\ pc' = "login"
            /\ sent' = sent
    /\ UNCHANGED <<req, headers, log, calls, accessToken, uploadRequest, fileId, lookups,
                   primaryStatus, video, filename, tempFilePath, tmpFile, unlinks,
                   download>>

UrlLogin == UploadLogin("url")

UrlAcquireTarget == UploadAcquireTarget("url")

UrlStorageUpload == UploadStorage("url", "households")

\* URL upload: the /households listing and the search for the household.
UrlListHouseholds ==
    /\ pc = "households"
    /\ req.handler = "url"
    /\ \E kind \in UpstreamKinds, data \in HouseholdListings :
        LET householdsResult == makeTonieApiRequest(kind, data)
            households == DataOrEmpty(householdsResult.data)
        IN  /\ calls' = Append(calls, ListingCall(HouseholdsPath, <<>>, accessToken,
                                                   householdsResult))
            /\ IF ApiFailed(householdsResult)
               THEN Finish(ErrorResponse(StatusOr500(householdsResult),
                        "Failed to fetch households", "string", Len(calls) + 1))
               ELSE IF householdsResult.data.shape = "object"
               THEN Finish(ErrorResponse(500, "Failed to upload file to storage",
                        "string", 0))
               ELSE IF FindById(households, householdId(req.tonieId)) = 0
               THEN Finish([ErrorResponse(404, "Household not found", "string", 0)
                        EXCEPT !.available = Available(households)])
               ELSE /\ pc' = "tonies"
                    /\ sent' = sent
    /\ UNCHANGED <<req, headers, log, accessToken, uploadRequest, fileId, lookups, primaryStatus,
                   urlVars>>

\* The search of the listing for the target tonie, and what follows it.
UrlSearch(creativetonies) ==
    IF FindById(creativetonies, creativeTonnieId(req.tonieId)) = 0
    THEN Finish(NotFoundResponse(creativetonies))
    ELSE /\ pc' = "chapter"
         /\ sent' = sent

\* URL upload: the primary creative-tonies listing.
UrlListTonies ==
    /\ pc = "tonies"
    /\ req.handler = "url"
    /\ \E kind \in UpstreamKinds, data \in TonieListings :
        LET creativeToniesResult == makeTonieApiRequest(kind, data)
        IN  /\ calls' = Append(calls,
                    ListingCall(CreativeToniesPath,
                                householdId(req.tonieId), accessToken,
                                creativeToniesResult))
            /\ IF ApiFailed(creativeToniesResult)
               THEN /\ primaryStatus' = creativeToniesResult.status
                    /\ pc' = "toniesFallback"
                    /\ sent' = sent
               ELSE /\ primaryStatus' = primaryStatus
                    /\ UrlSearch(ArrayOrEmpty(creativeToniesResult.data))
    /\ UNCHANGED <<req, headers, log, accessToken, uploadRequest, fileId, lookups, urlVars>>

\* URL upload: the fallback (hyphenated) creative-tonies listing.
UrlListToniesFallback ==
    /\ pc = "toniesFallback"
    /\ req.handler = "url"
    /\ \E kind \in UpstreamKinds, data \in TonieListings :
        LET fallbackResult == makeTonieApiRequest(kind, data)
        IN  /\ calls' = Append(calls,
                    ListingCall(FallbackPath,
                                householdId(req.tonieId), accessToken, fallbackResult))
            /\ IF ApiFailed(fallbackResult)
               THEN Finish(ErrorResponse(IF primaryStatus # 0 THEN primaryStatus ELSE 500,
                        "Failed to fetch Creative-Tonies", "string", Len(calls)))
               ELSE UrlSearch(ArrayOrEmpty(fallbackResult.data))
    /\ UNCHANGED <<req, headers, log, accessToken, uploadRequest, fileId, lookups, primaryStatus,
                   urlVars>>

UrlAddChapter == UploadAddChapter("url")

\* A finally block that answers 500 when unlink fails.
UrlCleanup_AnswersUnlinkFailure ==
    /\ pc = "finally"
    /\ unlinks' = unlinks + 1
    /\ tmpFile' = IF tmpFile = "exists" THEN "removed" ELSE tmpFile
    /\ sent' = IF tmpFile = "exists" THEN sent
               ELSE Append(sent, ErrorResponse(500, "Internal server error", "string", 0))
    /\ pc' = "done"
    /\ UNCHANGED <<req, headers, log, calls, accessToken, uploadRequest, fileId, lookups,
                   primaryStatus, video, filename, tempFilePath, download, fileSize>>

\* The finally block when tempFilePath is set: await unlink(tempFilePath); an
\* unlink that fails (no such file) is caught and logged.
UrlCleanup ==
    /\ pc = "finally"
    /\ unlinks' = unlinks + 1
    /\ tmpFile' = IF tmpFile = "exists" THEN "removed" ELSE tmpFile
    /\ pc' = "done"
    /\ UNCHANGED <<req, headers, log, calls, sent, accessToken, uploadRequest, fileId, lookups,
                   primaryStatus, video, filename, tempFilePath, download, fileSize>>

\* --------------------------------------------------------------- the system

Next ==
    \/ AuthReceive
    \/ AuthLogin
    \/ HouseholdsReceive
    \/ HouseholdsLogin
    \/ HouseholdsList
    \/ \E i \in 1..MaxHouseholds : i \in DOMAIN lookups /\ HouseholdPrimary(i)
    \/ \E i \in 1..MaxHouseholds : i \in DOMAIN lookups /\ HouseholdFallback(i)
    \/ HouseholdsJoin
    \/ DeviceReceive
    \/ DeviceLogin
    \/ DeviceAcquireTarget
    \/ DeviceStorageUpload
    \/ DeviceVerifyTonie
    \/ DeviceAddChapter
    \/ UrlReceive
    \/ UrlGetInfo
    \/ DownloadData
    \/ DownloadSourceEnd
    \/ DownloadFinish
    \/ DownloadSourceError
    \/ DownloadWriteError
    \/ DownloadTimeout
    \/ UrlAfterDownload
    \/ UrlLogin
    \/ UrlAcquireTarget
    \/ UrlStorageUpload
    \/ UrlListHouseholds
    \/ UrlListTonies
    \/ UrlListToniesFallback
    \/ UrlAddChapter
    \/ UrlCleanup

Spec == Init /\ [][Next]_vars

\* Every pending await resumes and an armed timer fires: the run does not
\* stop while a step is possible.
SpecLive == Spec /\ WF_vars(Next)

\* ------------------------------------------------- validateFile on its own

\* MAX_FILE_SIZE of the module the handler lives in.
MaxFileSize(handler) ==
    IF handler = "device" THEN MAX_FILE_SIZE_DEVICE ELSE MAX_FILE_SIZE_URL

\* Payload sizes around the ceiling and around the next rounding step of the
\* megabyte value.
SizeProbes(maxSize) ==
    { 0, 1, maxSize - 1, maxSize, maxSize + 1,
      maxSize + (BYTES_PER_MB \div 2) - 1, maxSize + (BYTES_PER_MB \div 2),
      maxSize + BYTES_PER_MB }

\* Arguments of validateFile(file, filename), for either module.
ValidationInputs ==
    UNION { { [BaseRequest EXCEPT !.handler = h, !.hasFile = TRUE, !.fileSize = z,
                                  !.filename = n] :
                z \in SizeProbes(MaxFileSize(h)), n \in Filenames } :
            h \in {"device", "url"} }

\* Nothing of a request has happened yet.
NothingDone ==
    /\ calls = <<>>
    /\ sent = <<>>
    /\ accessToken = ""
    /\ fileId = ""
    /\ lookups = <<>>
    /\ primaryStatus = 0
    /\ video = NoVideo
    /\ filename = <<>>
    /\ tempFilePath = NoPath
    /\ tmpFile = "absent"
    /\ unlinks = 0
    /\ download = IdleDownload
    /\ fileSize = 0
    /\ headers = NoHeaders
    /\ log = <<>>

InitValidate ==
    /\ req \in ValidationInputs
    /\ pc = "validate"
    /\ uploadRequest = NoTarget
    /\ NothingDone

\* One call of validateFile; the errors it returns are kept as the
\* violations of a response record.
Validate ==
    /\ pc = "validate"
    /\ LET errors == validateFile(req.fileSize, req.filename, MaxFileSize(req.handler))
       IN  sent' = << [ErrorResponse(400, "File validation failed", "array", 0)
                          EXCEPT !.violations = errors] >>
    /\ pc' = "done"
    /\ UNCHANGED <<req, headers, log, calls, accessToken, uploadRequest, fileId, lookups,
                   primaryStatus, urlVars>>

NextValidate == Validate

SpecValidate == InitValidate /\ [][NextValidate]_vars

\* --------------------------------------------------- uploadToS3 on its own

\* One piece of the multipart body text: "delimiter" is `--${boundary}\r\n`,
\* "disposition" the Content-Disposition line with its name and, for the
\* file part, filename, "type" the Content-Type line, "blank" the empty line
\* that ends the part headers, "content" a value or the file bytes, "crlf"
\* the line end after it, "close" `--${boundary}--\r\n`.
Token(t, v) == [t |-> t, v |-> v]

\* The part of one entry of Object.entries(uploadRequest.request.fields).
FieldPart(entry, boundary) ==
    << Token("delimiter", <<boundary>>), Token("disposition", <<entry[1]>>),
       Token("blank", <<>>), Token("content", <<entry[2]>>), Token("crlf", <<>>) >>

RECURSIVE FieldParts(_, _)
FieldParts(entries, boundary) ==
    IF entries = <<>> THEN <<>>
    ELSE FieldPart(Head(entries), boundary) \o FieldParts(Tail(entries), boundary)

\* A body that carries the file part before the field parts.
TransferBody_FileFirst(fields, fileData, name, boundary) ==
    << Token("delimiter", <<boundary>>), Token("disposition", <<"file", name>>),
       Token("type", <<"application/octet-stream">>), Token("blank", <<>>),
       Token("content", fileData), Token("crlf", <<>>) >>
    \o FieldParts(fields, boundary)
    \o << Token("close", <<boundary>>) >>

\* completeBody of uploadToS3: the field parts, the file part, the closing
\* boundary.
TransferBody(fields, fileData, name, boundary) ==
    FieldParts(fields, boundary)
    \o << Token("delimiter", <<boundary>>), Token("disposition", <<"file", name>>),
          Token("type", <<"application/octet-stream">>), Token("blank", <<>>),
          Token("content", fileData), Token("crlf", <<>>),
          Token("close", <<boundary>>) >>

\* Entries of a fields object, in the order Object.entries lists them.
FieldEntries == { <<"key", "v1">>, <<"policy", "v2">>, <<"acl", "v1">> }

\* Fields objects of zero to two entries with distinct keys.
FieldMappings ==
    { <<>> } \cup { <<e>> : e \in FieldEntries }
    \cup { pair \in FieldEntries \X FieldEntries : pair[1] # pair[2] }

\* Upload targets as POST /file returns them: fileId and request {url, fields}.
TransferTargets ==
    [fileId : {"f1"}, shape : {"full"}, url : {"https://s3/a", "https://s3/b"},
     fields : FieldMappings]

\* fileData and filename arguments of uploadToS3.
TransferPayloads ==
    [handler : {"device"}, filename : {SongMp3, <<"S", ".", "M", "P", "3">>},
     fileData : { <<>>, <<7>>, <<7, 13>> }]

\* The boundary uploadToS3 draws with Math.random().
Boundaries == {"b1", "b2"}

InitTransfer ==
    /\ req \in TransferPayloads
    /\ uploadRequest \in TransferTargets
    /\ pc = "s3"
    /\ NothingDone

\* One call of uploadToS3(uploadRequest, fileData, filename).
Transfer ==
    /\ pc = "s3"
    /\ \E kind \in StorageKinds, reply \in StorageReplies, boundary \in Boundaries :
        LET up == uploadToS3(uploadRequest, kind, reply)
        IN  /\ calls' = Append(calls,
                    [StorageCall(kind, reply) EXCEPT
                        !.path = uploadRequest.url,
                        !.boundary = boundary,
                        !.body = TransferBody(uploadRequest.fields, req.fileData,
                                              req.filename, boundary)])
            /\ fileId' = up.fileId
    /\ pc' = "done"
    /\ UNCHANGED <<req, headers, log, sent, accessToken, uploadRequest, lookups, primaryStatus,
                   urlVars>>

NextTransfer == Transfer

SpecTransfer == InitTransfer /\ [][NextTransfer]_vars

\* ------------------------------------------- parseMultipartData on its own

\* One element of body.split(`--${boundary}`), by what the decoder looks at:
\* whether it holds 'Content-Disposition', the name="..." and filename="..."
\* attributes of that line ("" when absent), whether the payload delimiters
\* are there (an empty line before the payload and a line end after a
\* payload that is not empty), and the payload.
Segment(disposition, name, file, delimited, data) ==
    [disposition |-> disposition, name |-> name, filename |-> file,
     delimited |-> delimited, data |-> data]

Segments ==
    { Segment(TRUE, "title", "", TRUE, <<1>>),
      Segment(TRUE, "title", "", TRUE, <<2>>),
      Segment(TRUE, "title", "", FALSE, <<3>>),
      Segment(TRUE, "file", "a.mp3", TRUE, <<4, 5>>),
      Segment(TRUE, "file", "b.exe", FALSE, <<6>>),
      Segment(TRUE, "", "", TRUE, <<7>>),
      Segment(FALSE, "", "", TRUE, <<8>>) }

\* Bodies of up to three segments.
Bodies ==
    { <<>> } \cup { <<a>> : a \in Segments }
    \cup (Segments \X Segments) \cup (Segments \X Segments \X Segments)

\* const fields = {}; let fileData = null; let filename = ''
NothingDecoded == [fields |-> <<>>, hasFile |-> FALSE, fileData |-> <<>>, filename |-> ""]

\* disposition.match(/name="([^"]+)"/): the pattern also matches inside a
\* filename="..." attribute.
NameMatch(segment) ==
    IF segment.name # "" THEN segment.name ELSE segment.filename

\* fields[fieldName] = value
SetField(fields, name, value) ==
    [n \in DOMAIN fields \cup {name} |-> IF n = name THEN value ELSE fields[n]]

\* One pass of the for loop of parseMultipartData over a segment.
DecodeSegment(out, segment) ==
    IF ~segment.disposition THEN out
    ELSE IF NameMatch(segment) = "" THEN out
    ELSE IF segment.filename # ""
        THEN IF ~segment.delimited
             THEN [out EXCEPT !.filename = segment.filename]
             ELSE [out EXCEPT !.filename = segment.filename, !.hasFile = TRUE,
                              !.fileData = segment.data]
    ELSE IF ~segment.delimited THEN out
    ELSE [out EXCEPT !.fields = SetField(out.fields, NameMatch(segment), segment.data)]

RECURSIVE DecodeFrom(_, _)
DecodeFrom(out, segments) ==
    IF segments = <<>> THEN out
    ELSE DecodeFrom(DecodeSegment(out, Head(segments)), Tail(segments))

\* A decoder whose fields, fileData and filename outlive the call: it goes
\* on from what the previous call returned.
parseMultipartData_KeepsState(segments) ==
    DecodeFrom(IF sent = <<>> THEN NothingDecoded ELSE sent[Len(sent)], segments)

\* parseMultipartData(body, contentType) for a content type with a boundary.
parseMultipartData(segments) == DecodeFrom(NothingDecoded, segments)

InitDecode ==
    /\ req \in [handler : {"device"}, segments : Bodies]
    /\ pc = "decode"
    /\ uploadRequest = NoTarget
    /\ NothingDone

\* One call of parseMultipartData; what it returns is kept in sent.
Decode ==
    /\ pc = "decode"
    /\ sent' = << parseMultipartData(req.segments) >>
    /\ pc' = "done"
    /\ UNCHANGED <<req, headers, log, calls, accessToken, uploadRequest, fileId, lookups,
                   primaryStatus, urlVars>>

NextDecode == Decode

SpecDecode == InitDecode /\ [][NextDecode]_vars

\* ------------------------------------- parseMultipartData called repeatedly

MaxRepeatSegments == 2

\* Bodies of up to MaxRepeatSegments segments.
RepeatBodies == { b \in Bodies : Len(b) <= MaxRepeatSegments }

\* Three calls of parseMultipartData in a row: a body, another body (or the
\* same one), and the first body again.
InitRepeat ==
    /\ req \in [handler : {"device"}, segments : RepeatBodies, earlier : RepeatBodies]
    /\ pc = "first"
    /\ uploadRequest = NoTarget
    /\ NothingDone

\* One of the three calls; what it returns is appended to sent.
DecodeAgain ==
    /\ pc \in {"first", "other", "again"}
    /\ sent' = Append(sent, parseMultipartData(
                   IF pc = "other" THEN req.earlier ELSE req.segments))
    /\ pc' = CASE pc = "first" -> "other" [] pc = "other" -> "again" [] OTHER -> "done"
    /\ UNCHANGED <<req, headers, log, calls, accessToken, uploadRequest, fileId, lookups,
                   primaryStatus, urlVars>>

NextRepeat == DecodeAgain

SpecRepeat == InitRepeat /\ [][NextRepeat]_vars

\* ------------------------------------------------------------------ claims

UploadHandlers == {"device", "url"}

\* The request reached the handler with a body the handler could read: a
\* parsed JSON body, or a multipart body with a boundary that arrived whole.
WellFormedBody ==
    IF req.handler = "device"
    THEN HasBoundary(req.contentType) /\ req.bodyReadOk
    ELSE req.hasBody

\* The check for missing fields that the upload handlers run before the gate.
RequiredFieldsPresent ==
    /\ req.appPassword # "" /\ req.tonieId # <<>> /\ req.title # <<>>
    /\ (req.handler = "device" => req.hasFile)
    /\ (req.handler = "url" => req.url # "")

GateReached == req.handler \in {"auth", "households"} \/ RequiredFieldsPresent

BadPassword == req.appPassword = "" \/ req.appPassword # APP_PASSWORD

\* C1 as stated: in every handler a POST request with an empty or wrong
\* appPassword ends with a 401 response and makes no upstream call.
C1_Original_BadPasswordAlways401 ==
    (req.method = "POST" /\ WellFormedBody /\ BadPassword)
        => /\ calls = <<>>
           /\ (pc = "done" => Len(sent) = 1 /\ sent[1].status = 401)

\* C1 as amended: a POST request with an empty or wrong appPassword never
\* makes an upstream call (no login, API call, storage POST, metadata lookup
\* or download, no temporary file); it ends with 401 "Invalid app password"
\* when it reaches the gate, which the auth and households handlers always
\* do and the upload handlers do when every required field is present, and
\* with 400 when an upload handler rejects it earlier for a missing field.
C1_BadPasswordNoUpstreamCall ==
    (req.method = "POST" /\ BadPassword)
        => /\ calls = <<>>
           /\ pc \in {"start", "done"}
           /\ tempFilePath = NoPath /\ tmpFile = "absent" /\ download.state = "idle"
           /\ (pc = "done" /\ WellFormedBody
                 => /\ Len(sent) = 1
                    /\ ~sent[1].success
                    /\ IF GateReached
                       THEN sent[1].status = 401 /\ sent[1].error = "Invalid app password"
                       ELSE sent[1].status = 400)

\* A wrong, non-empty password was refused at the gate of an upload handler.
C1_Witness ==
    /\ pc = "done" /\ req.method = "POST" /\ req.handler \in UploadHandlers
    /\ req.appPassword = "wrong" /\ RequiredFieldsPresent
    /\ Len(sent) = 1 /\ sent[1].status = 401 /\ calls = <<>>

\* The upstream calls of the upload pipeline that are not listings.
IsPipelineStep(c) ==
    c.op \in {"login", "s3"} \/ (c.op = "api" /\ c.path \in {FilePath, ChaptersPath})

StepName(c) == IF c.op = "api" THEN c.path ELSE c.op

IsTonieListing(c) == c.op = "api" /\ c.path \in {CreativeToniesPath, FallbackPath}

HasId(items, id) == \E k \in 1..Len(items) : items[k].id = id

Answered == sent # <<>>

LastResponse == sent[Len(sent)]

\* The handler has sent its response and is returning.
Leaving == pc \in {"done", "finally"}

NonDebugUploadSuccess ==
    /\ req.handler \in UploadHandlers
    /\ Answered /\ LastResponse.success /\ ~LastResponse.debug /\ ~LastResponse.bare

\* C2: an upload request answers with the non-debug success response only
\* after login, POST /file, the storage POST, a creative-tonies listing that
\* contains the target, and the chapter registration have all succeeded in
\* this order; login, POST /file, storage POST and chapter registration were
\* each made exactly once.
C2_SuccessOnlyAfterAllSteps ==
    NonDebugUploadSuccess =>
        LET steps == SelectSeq(calls, IsPipelineStep)
        IN  /\ Len(sent) = 1
            /\ [k \in 1..Len(steps) |-> StepName(steps[k])]
                    = <<"login", FilePath, "s3", ChaptersPath>>
            /\ \A k \in 1..Len(steps) : steps[k].ok
            /\ calls[Len(calls)].path = ChaptersPath
            /\ \E i, j \in 1..Len(calls) :
                /\ j < i /\ i < Len(calls)
                /\ calls[j].op = "s3"
                /\ IsTonieListing(calls[i]) /\ calls[i].ok
                /\ HasId(calls[i].items, creativeTonnieId(req.tonieId))

\* A URL upload ended with the success response.
C2_Witness == NonDebugUploadSuccess /\ req.handler = "url" /\ pc = "done"

\* C3: the URL upload handler never finishes with the temporary file still
\* on disk: once a temporary path was assigned, unlink has run exactly once
\* when the handler ends, whatever the exit path.
C3_TempFileRemovedOnEveryExit ==
    (req.handler = "url" /\ pc = "done")
        => /\ tmpFile # "exists"
           /\ (tempFilePath # NoPath => unlinks = 1)

\* The handler ended on a failed storage upload and the file it had
\* downloaded is gone.
C3_Witness ==
    /\ req.handler = "url" /\ pc = "done" /\ tmpFile = "removed"
    /\ LastResponse.error = "Failed to upload file to storage"

TitleBeginsWithDebug ==
    Len(req.title) >= 5 /\ SubSeq(req.title, 1, 5) = <<"D", "E", "B", "U", "G">>

IsUpstreamCall(c) == c.op \in {"login", "api", "s3"}

\* C4 as stated: on both upload paths a request whose title begins with
\* DEBUG never logs in and makes no upload-target, storage, directory or
\* chapter call.
C4_Original_DebugBypassBothPaths ==
    (req.handler \in UploadHandlers /\ TitleBeginsWithDebug)
        => \A i \in 1..Len(calls) : ~IsUpstreamCall(calls[i])

\* C4 as amended: on the device upload path a request with all required
\* fields, the right appPassword, a payload that passes validation and a
\* title beginning with DEBUG ends right after validation with the debug
\* success response and makes no upstream call at all.
C4_DebugBypassOnDevicePath ==
    ( /\ req.handler = "device" /\ req.method = "POST" /\ WellFormedBody
      /\ RequiredFieldsPresent /\ req.appPassword = APP_PASSWORD
      /\ validateFile(req.fileSize, req.filename, MAX_FILE_SIZE_DEVICE) = <<>>
      /\ TitleBeginsWithDebug )
        => /\ calls = <<>>
           /\ pc \in {"start", "done"}
           /\ (pc = "done" =>
                 /\ Len(sent) = 1 /\ sent[1].success /\ sent[1].debug
                 /\ sent[1].status = 200
                 /\ sent[1].filename = req.filename /\ sent[1].fileSize = req.fileSize)

\* A device upload was answered in debug mode.
C4_Witness ==
    /\ req.handler = "device" /\ pc = "done" /\ TitleBeginsWithDebug
    /\ Len(sent) = 1 /\ sent[1].debug

\* Call i is preceded by a successful login of this request that returned
\* the bearer token call i sent.
SentOwnLoginToken(i) ==
    \E j \in 1..(i - 1) :
        calls[j].op = "login" /\ calls[j].ok /\ calls[j].reply = calls[i].token

LoginCount == Len(SelectSeq(calls, LAMBDA c : c.op = "login"))

\* C5 as stated: every Tonie API call of every request carries the token
\* returned by a login made earlier in the same request.
C5_Original_AlwaysOwnLogin ==
    \A i \in 1..Len(calls) : calls[i].op = "api" => SentOwnLoginToken(i)

\* C5 as amended: in the device and URL upload handlers, and in the directory
\* listing when the request carries no sessionToken, every Tonie API call is
\* preceded by the single login of that request and sends the token that
\* login returned. A directory listing request that carries a sessionToken
\* performs no login and sends the caller's token on every Tonie API call.
C5_TokenOfOwnLoginUnlessSupplied ==
    \A i \in 1..Len(calls) :
        calls[i].op = "api" =>
            IF req.handler = "households" /\ req.sessionToken # ""
            THEN calls[i].token = req.sessionToken /\ LoginCount = 0
            ELSE SentOwnLoginToken(i) /\ LoginCount = 1

\* An upload sent the token "tokB" its login had just returned.
C5_Witness ==
    /\ req.handler \in UploadHandlers
    /\ \E i \in 1..Len(calls) :
        calls[i].op = "api" /\ calls[i].token = "tokB" /\ SentOwnLoginToken(i)

FailedPrimaryListing(c) == c.op = "api" /\ c.path = CreativeToniesPath /\ ~c.ok

\* C6: on both upload paths a failed primary creative-tonies listing is
\* followed by one call to the hyphenated endpoint before the request is
\* answered.
C6_FallbackOnBothUploadPaths ==
    req.handler \in UploadHandlers =>
        \A i \in 1..Len(calls) :
            FailedPrimaryListing(calls[i]) =>
                IF i = Len(calls) THEN ~Answered
                ELSE i + 1 = Len(calls) /\ calls[i + 1].path = FallbackPath

\* The listing the target search runs on: a successful creative-tonies
\* listing whose JSON data is a list (or null, read as the empty list; the
\* URL path reads any non-array as the empty list).
IsSearchedListing(c) ==
    /\ IsTonieListing(c) /\ c.ok
    /\ (c.shape \in {"array", "null"} \/ req.handler = "url")

IdsAndNames(items) ==
    [k \in 1..Len(items) |-> [id |-> items[k].id, name |-> items[k].name]]

InScopeOfC8 == req.handler \in UploadHandlers \cup {"households"}

\* The response reports the failure of call i.
ReportsFailureOf(i) ==
    Answered /\ Len(sent) = 1 /\ ~LastResponse.success /\ LastResponse.cause = i

\* C8 as stated: after any upstream call (login, Tonie API call, storage
\* POST) has failed no further upstream call is made, and the response
\* reports that failure.
C8_Original_EveryFailureTerminal ==
    InScopeOfC8 =>
        \A i \in 1..Len(calls) :
            (IsUpstreamCall(calls[i]) /\ ~calls[i].ok)
                => i = Len(calls) /\ (Answered => ReportsFailureOf(i))

CountOf(Test(_)) == Len(SelectSeq(calls, Test))

\* C8 as amended: a failed login, POST /file, storage POST, /households
\* listing or chapter registration is terminal: it is the last upstream call
\* of the request and the response reports it; so is a failed primary
\* creative-tonies listing on the device path. None of these calls is made
\* twice. The exception is the creative-tonies listing elsewhere: in the URL
\* upload a failed primary listing is followed by exactly one call to the
\* hyphenated endpoint, whose failure ends the request with a response that
\* reports the primary failure; in the directory listing a failed primary
\* listing of a household is followed by one call to the hyphenated endpoint
\* for that household, and no listing failure fails the request.
C8_FailuresTerminalExceptListings ==
    InScopeOfC8 =>
        /\ \A i \in 1..Len(calls) :
            (IsUpstreamCall(calls[i]) /\ ~calls[i].ok) =>
                IF ~IsTonieListing(calls[i]) \/ req.handler = "device"
                    THEN i = Len(calls) /\ Leaving /\ ReportsFailureOf(i)
                ELSE IF req.handler = "url" /\ calls[i].path = CreativeToniesPath
                    THEN \/ i = Len(calls) /\ pc = "toniesFallback" /\ ~Answered
                         \/ /\ calls[i + 1].path = FallbackPath
                            /\ (~calls[i + 1].ok => i + 1 = Len(calls))
                ELSE IF req.handler = "url"
                    THEN i = Len(calls) /\ Leaving /\ ReportsFailureOf(i - 1)
                ELSE Answered =>
                        /\ LastResponse.success /\ LastResponse.status = 200
                        /\ IF calls[i].path = CreativeToniesPath
                           THEN \E j \in (i + 1)..Len(calls) :
                                    /\ calls[j].path = FallbackPath
                                    /\ calls[j].household = calls[i].household
                           ELSE \A k \in 1..Len(LastResponse.households) :
                                    LastResponse.households[k].id = calls[i].household
                                        => LastResponse.households[k].creativeTonies = <<>>
        /\ \A path \in {FilePath, HouseholdsPath, ChaptersPath} :
            CountOf(LAMBDA c : c.op = "api" /\ c.path = path) <= 1
        /\ CountOf(LAMBDA c : c.op = "login") <= 1
        /\ CountOf(LAMBDA c : c.op = "s3") <= 1
        /\ \A h \in {calls[k].household : k \in 1..Len(calls)} :
            \A path \in {CreativeToniesPath, FallbackPath} :
                CountOf(LAMBDA c : c.op = "api" /\ c.path = path /\ c.household = h) <= 1

\* A POST /file that failed with 404 ended a device upload with a 404 that
\* reports it.
C8_Witness ==
    /\ req.handler = "device" /\ pc = "done" /\ Len(calls) = 2
    /\ calls[2].path = FilePath /\ ~calls[2].ok /\ calls[2].status = 404
    /\ ReportsFailureOf(2) /\ LastResponse.status = 404

\* The fileId the upload target of this request carried.
TargetFileIdIs(f) ==
    \E j \in 1..Len(calls) :
        calls[j].op = "api" /\ calls[j].path = FilePath /\ calls[j].ok /\ calls[j].reply = f

\* C9: the fileId in the chapter registration body and in the success
\* response is the fileId of the upload target POST /file returned in the
\* same request, whatever the storage endpoint answered.
C9_FileIdIsTargetFileId ==
    /\ \A i \in 1..Len(calls) :
        (calls[i].op = "api" /\ calls[i].path = ChaptersPath) => TargetFileIdIs(calls[i].file)
    /\ NonDebugUploadSuccess => TargetFileIdIs(LastResponse.fileId)

\* An upload succeeded with the target's fileId "f2" although the storage
\* endpoint answered with another identifier.
C9_Witness ==
    /\ NonDebugUploadSuccess /\ LastResponse.fileId = "f2" /\ TargetFileIdIs("f2")
    /\ \E i \in 1..Len(calls) : calls[i].op = "s3" /\ calls[i].reply = "f1"

\* C10: when the storage POST returns a non-2xx response (or fails in
\* transport) the upload ends with the 500 "Failed to upload file to storage"
\* response and neither a creative-tonie lookup nor a chapter registration
\* is made.
C10_StorageFailureIsFatal ==
    \A i \in 1..Len(calls) :
        (calls[i].op = "s3" /\ ~calls[i].ok) =>
            /\ i = Len(calls)
            /\ Leaving
            /\ Len(sent) = 1
            /\ LastResponse.status = 500
            /\ LastResponse.error = "Failed to upload file to storage"

\* A storage POST answered 403 and the device upload ended with the 500.
C10_Witness ==
    /\ req.handler = "device" /\ pc = "done" /\ calls # <<>>
    /\ calls[Len(calls)].op = "s3" /\ calls[Len(calls)].status = 403
    /\ LastResponse.status = 500

FailedApiCall(c) == c.op = "api" /\ ~c.ok

\* The status a response that propagates the failure of call c carries.
PropagatedStatus(c) == IF c.status # 0 THEN c.status ELSE 500

\* C11 as stated: whenever a Tonie API call other than login failed, the
\* response of the request carries the upstream status of that call, or 500
\* when the call failed without a status.
C11_Original_EveryFailureStatusPropagated ==
    \A i \in 1..Len(calls) :
        (FailedApiCall(calls[i]) /\ Answered)
            => LastResponse.status = PropagatedStatus(calls[i])

\* C11 as amended: the response carries the upstream status of the failed
\* call (500 when it had none) for POST /file, the /households listing and
\* the chapter registration in every handler, and for the creative-tonies
\* listing of the device upload. In the URL upload a failed primary
\* creative-tonies listing is not reported unless the hyphenated listing
\* fails too, and then the response carries the status of the primary call
\* (500 when it had none), never that of the hyphenated call. In the
\* directory listing a failed creative-tonies listing is not reported at
\* all: the request answers 200.
C11_StatusPropagatedExceptListings ==
    \A i \in 1..Len(calls) :
        FailedApiCall(calls[i]) =>
            IF ~IsTonieListing(calls[i]) \/ req.handler = "device"
                THEN /\ Answered /\ Len(sent) = 1
                     /\ LastResponse.status = PropagatedStatus(calls[i])
            ELSE IF req.handler = "url" /\ calls[i].path = CreativeToniesPath
                THEN (i < Len(calls) /\ ~calls[i + 1].ok)
                        => /\ Answered /\ Len(sent) = 1
                           /\ LastResponse.status = PropagatedStatus(calls[i])
            ELSE IF req.handler = "url"
                THEN /\ Answered /\ Len(sent) = 1
                     /\ LastResponse.status = PropagatedStatus(calls[i - 1])
            ELSE Answered => LastResponse.status = 200

\* A chapter registration that failed with 404 ended an upload with 404.
C11_Witness ==
    /\ pc = "done" /\ calls # <<>> /\ Answered
    /\ FailedApiCall(calls[Len(calls)])
    /\ calls[Len(calls)].path = ChaptersPath
    /\ calls[Len(calls)].status = 404
    /\ LastResponse.status = 404

FailedLogin(c) == c.op = "login" /\ ~c.ok

\* C12: a failed login ends the request at once: the login call is the last
\* upstream call and the only login of the request, no Tonie API call and no
\* storage POST exists in the request, and the response is the 401 that
\* carries the error detail of that login.
C12_LoginFailureIsFatal ==
    \A i \in 1..Len(calls) :
        FailedLogin(calls[i]) =>
            /\ i = Len(calls)
            /\ LoginCount = 1
            /\ \A j \in 1..Len(calls) : calls[j].op \notin {"api", "s3"}
            /\ Leaving
            /\ Len(sent) = 1
            /\ LastResponse.status = 401
            /\ ~LastResponse.success
            /\ LastResponse.error = "Failed to authenticate with Tonie API"
            /\ LastResponse.details = "string"
            /\ LastResponse.cause = i

\* A URL upload whose login failed after the download ended with the 401.
C12_Witness ==
    /\ req.handler = "url" /\ pc = "done" /\ calls # <<>>
    /\ FailedLogin(calls[Len(calls)])
    /\ LastResponse.status = 401
    /\ tmpFile = "removed"

\* C13: a login reports success only for a 2xx answer that holds a token; a
\* 2xx answer without a token is a failure, a non-2xx answer is a failure
\* whose error carries the HTTP status, a transport failure is a failure with
\* the network error; so the tonie-login action never answers success
\* without a sessionToken.
C13_LoginSuccessOnlyWithToken ==
    /\ \A i \in 1..Len(calls) :
        calls[i].op = "login" =>
            /\ calls[i].ok <=> calls[i].exchange = "ok"
            /\ calls[i].exchange = "okNoToken" => ~calls[i].ok
            /\ calls[i].exchange \in {"http401", "http401Text"}
                    => ~calls[i].ok /\ calls[i].error = "http"
            /\ calls[i].exchange = "network"
                    => ~calls[i].ok /\ calls[i].error = "network"
    /\ (req.handler = "auth" /\ req.action = "tonie-login" /\ Answered
            /\ LastResponse.success)
        => LastResponse.sessionToken # ""

\* The filename ends in a supported extension, compared case-insensitively
\* (a filename without a dot counts as its own extension).
HasSupportedExtension(name) ==
    \E f \in Range(SUPPORTED_FORMATS) :
        LET k == Len(name) - Len(f)
        IN  /\ k >= 0
            /\ ToLowerCase(SubSeq(name, k + 1, Len(name))) = f
            /\ (k = 0 \/ name[k] = ".")

\* The rules a payload of the given size and name violates, in the order
\* size, length, format.
ViolatedRules(size, name, ceiling) ==
    (IF size > ceiling THEN <<"size">> ELSE <<>>)
    \o (IF Len(name) > 128 THEN <<"length">> ELSE <<>>)
    \o (IF ~HasSupportedExtension(name) THEN <<"format">> ELSE <<>>)

RulesOf(violations) == [k \in DOMAIN violations |-> violations[k].rule]

\* The request ended with a 400 that lists exactly the given violated rules.
RejectedFor(rules) ==
    /\ Leaving /\ Len(sent) = 1
    /\ LastResponse.status = 400
    /\ RulesOf(LastResponse.violations) = rules

DeviceValidationRan ==
    /\ req.handler = "device" /\ req.method = "POST" /\ pc # "start"
    /\ WellFormedBody /\ RequiredFieldsPresent /\ req.appPassword = APP_PASSWORD

\* C14: a validation run returns one entry per violated rule, and on both
\* upload paths a run that returns at least one violation ends the request
\* with a 400 that lists all of them before any later step: the device
\* upload makes no upstream call, the URL upload starts no download after a
\* failed filename validation and no login after a failed final validation.
C14_ValidationFailureIsFatal ==
    /\ DeviceValidationRan =>
        LET rules == ViolatedRules(req.fileSize, req.filename, MAX_FILE_SIZE_DEVICE)
        IN  rules # <<>> => RejectedFor(rules) /\ calls = <<>>
    /\ (req.handler = "url" /\ filename # <<>>) =>
        LET rules == ViolatedRules(0, filename, MAX_FILE_SIZE_URL)
        IN  rules # <<>> =>
                /\ RejectedFor(rules)
                /\ tempFilePath = NoPath /\ download.state = "idle"
                /\ \A i \in 1..Len(calls) : calls[i].op # "download"
    /\ (req.handler = "url" /\ download.state = "resolved" /\ pc # "download") =>
        LET rules == ViolatedRules(download.bytes, filename, MAX_FILE_SIZE_URL)
        IN  rules # <<>> =>
                /\ RejectedFor(rules)
                /\ \A i \in 1..Len(calls) : calls[i].op \notin {"login", "api", "s3"}

\* The text after the last "." of the name as written; the whole name when
\* it holds no ".".
TextAfterLastDot(name) ==
    LET dots == {k \in 1..Len(name) : name[k] = "."}
    IN  IF dots = {} THEN name
        ELSE SubSeq(name, (CHOOSE k \in dots : \A j \in dots : j <= k) + 1, Len(name))

FormatViolations ==
    IF Answered THEN SelectSeq(LastResponse.violations, LAMBDA e : e.rule = "format")
    ELSE <<>>

\* C15 as stated: a device upload whose filename has an extension outside
\* the supported set is answered with a format violation that names the
\* extension exactly as it is written in the filename; one whose extension
\* is in the set, whatever its case, gets no format violation.
C15_Original_NamesExactExtension ==
    DeviceValidationRan =>
        LET extension == TextAfterLastDot(req.filename)
        IN  IF ToLowerCase(extension) \in Range(SUPPORTED_FORMATS)
            THEN FormatViolations = <<>>
            ELSE /\ Len(FormatViolations) = 1
                 /\ FormatViolations[1].ext = extension

\* C15 as amended: the extension validation looks at is the text after the
\* last "." of the filename (the whole filename when it has no "."), in
\* lower case. When it is outside the supported set the 400 response holds
\* exactly one format violation, which names that lower-case extension; when
\* it is in the set the request gets no format violation. The URL upload,
\* whose generated filename ends in ".m4a", never gets a format violation.
C15_FormatViolationNamesLowerCaseExtension ==
    /\ DeviceValidationRan =>
        LET extension == ToLowerCase(TextAfterLastDot(req.filename))
        IN  IF extension \in Range(SUPPORTED_FORMATS)
            THEN FormatViolations = <<>>
            ELSE /\ pc = "done" /\ LastResponse.status = 400
                 /\ Len(FormatViolations) = 1
                 /\ FormatViolations[1].ext = extension
    /\ req.handler = "url" => FormatViolations = <<>>

\* "s.EXE" was refused with a format violation that names "exe".
C15_Witness ==
    /\ DeviceValidationRan /\ pc = "done"
    /\ req.filename = <<"s", ".", "E", "X", "E">>
    /\ Len(FormatViolations) = 1 /\ FormatViolations[1].ext = <<"e", "x", "e">>

SizeViolations ==
    IF Answered THEN SelectSeq(LastResponse.violations, LAMBDA e : e.rule = "size")
    ELSE <<>>

\* m is size / 1048576 rounded to the nearest integer, halves rounded up.
IsRoundedMB(m, size) ==
    /\ m * 1048576 - 524288 <= size
    /\ size < m * 1048576 + 524288

\* C16: validateFile reports a size violation exactly when the size is
\* strictly above the ceiling of its path (1073741824 bytes on the device
\* path, 536870912 on the URL path), so a payload of exactly the ceiling is
\* accepted, and the megabyte value it reports is round(size / 1048576).
C16_SizeViolationIffAboveCeiling ==
    pc = "done" =>
        LET ceiling == IF req.handler = "device" THEN 1073741824 ELSE 536870912
        IN  IF req.fileSize > ceiling
            THEN /\ Len(SizeViolations) = 1
                 /\ IsRoundedMB(SizeViolations[1].num, req.fileSize)
            ELSE SizeViolations = <<>>

\* On the URL path a payload half a megabyte above the ceiling was reported
\* as 513MB.
C16_Witness ==
    /\ pc = "done" /\ req.handler = "url"
    /\ req.fileSize = 536870912 + 524288
    /\ Len(SizeViolations) = 1 /\ SizeViolations[1].num = 513

\* The tokens of the given kind in the storage POST body, in body order.
TokensOf(body, kind) == SelectSeq(body, LAMBDA token : token.t = kind)

\* The number of the part position k of the body lies in: the count of
\* delimiters up to k.
PartOf(body, k) == Cardinality({j \in 1..k : body[j].t = "delimiter"})

\* C17: the storage POST goes to the url of the upload target, and its body
\* holds one part per entry of the target's fields, in the order of the
\* fields and with the entry's value as content, then exactly one part named
\* "file" with the payload's filename, content type application/octet-stream
\* and the payload bytes as content, then the closing boundary; every part
\* starts with the boundary announced in the Content-Type header.
C17_TransferBodyLayout ==
    \A i \in 1..Len(calls) :
        calls[i].op = "s3" =>
            LET body == calls[i].body
                fields == uploadRequest.fields
                n == Len(fields)
                names == TokensOf(body, "disposition")
                contents == TokensOf(body, "content")
                types == {k \in 1..Len(body) : body[k].t = "type"}
            IN  /\ calls[i].path = uploadRequest.url
                /\ calls[i].method = "POST"
                /\ Len(names) = n + 1 /\ Len(contents) = n + 1
                /\ \A k \in 1..n : /\ names[k].v = <<fields[k][1]>>
                                   /\ contents[k].v = <<fields[k][2]>>
                /\ names[n + 1].v = <<"file", req.filename>>
                /\ contents[n + 1].v = req.fileData
                /\ \A k \in 1..Len(body) :
                    /\ body[k].t = "delimiter" => body[k].v = <<calls[i].boundary>>
                    /\ body[k].t = "disposition"
                        => k > 1 /\ body[k - 1].t = "delimiter"
                    /\ body[k].t = "content"
                        => \E d \in 1..(k - 1) :
                              /\ body[d].t = "disposition"
                              /\ PartOf(body, d) = PartOf(body, k)
                /\ PartOf(body, Len(body)) = n + 1
                /\ \A k \in types : /\ PartOf(body, k) = n + 1
                                    /\ body[k].v = <<"application/octet-stream">>
                /\ Cardinality(types) = 1
                /\ body[Len(body)] = Token("close", <<calls[i].boundary>>)
                /\ \A k \in 1..(Len(body) - 1) : body[k].t # "close"

\* A two-byte payload was posted after the fields policy and key, in that
\* order.
C17_Witness ==
    /\ pc = "done" /\ Len(calls) = 1 /\ calls[1].op = "s3"
    /\ uploadRequest.fields = << <<"policy", "v2">>, <<"key", "v1">> >>
    /\ req.fileData = <<7, 13>>
    /\ Len(calls[1].body) = 17

NoBoundaryParameter == req.contentType # "multipart/form-data; boundary=B"

\* C18: a device upload (POST) whose Content-Type carries no boundary=
\* parameter is answered by the first step of the handler with a 400 and no
\* upstream call is made, whatever its password; when the content type is
\* multipart/form-data the 400 is the decode error "Failed to parse
\* multipart data" with the decoder's message as details.
C18_MissingBoundaryIsDecodeError ==
    (req.handler = "device" /\ req.method = "POST" /\ NoBoundaryParameter
        /\ pc # "start")
        => /\ pc = "done"
           /\ Len(sent) = 1
           /\ LastResponse.status = 400 /\ ~LastResponse.success
           /\ calls = <<>>
           /\ (req.contentType = "multipart/form-data" /\ req.bodyReadOk)
                => /\ LastResponse.error = "Failed to parse multipart data"
                   /\ LastResponse.details = "string"

\* A multipart request without boundary got the decode error although its
\* password was wrong.
C18_Witness ==
    /\ req.handler = "device" /\ req.method = "POST" /\ pc = "done"
    /\ req.contentType = "multipart/form-data" /\ req.appPassword = "wrong"
    /\ LastResponse.status = 400
    /\ LastResponse.error = "Failed to parse multipart data"

\* The decoder skips the segment: it has no Content-Disposition line, no
\* name attribute, or its payload delimiters are missing.
IsSkipped(segment) ==
    \/ ~segment.disposition
    \/ (segment.name = "" /\ segment.filename = "")
    \/ ~segment.delimited

\* The segments of the body the decoder does not skip.
KeptSegments == SelectSeq(req.segments, LAMBDA segment : ~IsSkipped(segment))

KeptFiles == SelectSeq(KeptSegments, LAMBDA segment : segment.filename # "")

KeptValues(name) ==
    SelectSeq(KeptSegments, LAMBDA segment : segment.filename = "" /\ segment.name = name)

\* C19: the decoder returns what the segments it does not skip hold, as if
\* the skipped ones were not in the body: each field has the value of the
\* last kept segment of that name, and the file bytes and the filename are
\* those of the last kept file segment (none and '' when there is none), so
\* the filename belongs to the segment the bytes came from.
C19_SkippedSegmentsLeaveNoTrace ==
    pc = "done" =>
        LET out == sent[1]
        IN  /\ DOMAIN out.fields =
                  {KeptSegments[k].name : k \in {j \in 1..Len(KeptSegments) :
                                                    KeptSegments[j].filename = ""}}
            /\ \A name \in DOMAIN out.fields :
                  out.fields[name] = KeptValues(name)[Len(KeptValues(name))].data
            /\ IF KeptFiles = <<>>
               THEN ~out.hasFile /\ out.filename = ""
               ELSE /\ out.hasFile
                    /\ out.fileData = KeptFiles[Len(KeptFiles)].data
                    /\ out.filename = KeptFiles[Len(KeptFiles)].filename

\* C20: as soon as the bytes counted by the data handler exceed 536870912
\* the download is aborted: both streams are destroyed, the timer is
\* cleared, the download is rejected with the too-large error and stays so;
\* the handler answers 400 without login or any later step.
C20_DownloadAbortedOverCeiling ==
    download.bytes > 536870912 =>
        /\ download.state = "rejected"
        /\ download.error = "Download aborted: File size exceeds 512MB limit"
        /\ download.audio = "destroyed" /\ download.write = "destroyed"
        /\ ~download.timer
        /\ \A i \in 1..Len(calls) : calls[i].op \notin {"login", "api", "s3"}
        /\ pc # "download" =>
            /\ Leaving /\ Len(sent) = 1
            /\ LastResponse.status = 400
            /\ LastResponse.error = "Failed to download YouTube audio"

\* Two chunks that together exceed the ceiling by one byte: the second one
\* aborted the download, and the request ended with 400.
C20_Witness ==
    /\ req.handler = "url" /\ pc = "done"
    /\ download.bytes = 536870912 + 1 /\ download.chunks = 2
    /\ download.state = "rejected"
    /\ LastResponse.status = 400 /\ tmpFile # "exists"

TimeoutError == "Download timeout after 60 seconds"

\* The deadline is armed exactly while the download is neither finished nor
\* failed.
DeadlineArmedWhilePending == download.timer <=> download.state = "pending"

\* What holds once the deadline has failed the download.
TimedOut ==
    /\ download.state = "rejected"
    /\ download.audio = "destroyed" /\ download.write = "destroyed"
    /\ ~download.timer
    /\ \A i \in 1..Len(calls) : calls[i].op \notin {"login", "api", "s3"}
    /\ pc # "download" =>
        /\ Leaving /\ Len(sent) = 1
        /\ LastResponse.status = 400
        /\ LastResponse.error = "Failed to download YouTube audio"
        /\ LastResponse.details = "string"

\* C21: the 60 second deadline is armed exactly while the download has
\* neither finished nor failed; when it expires both streams are destroyed
\* and the download is rejected with the timeout error for good, which the
\* handler reports as 400 "Failed to download YouTube audio" without login
\* or any later step; a download that has finished stays finished, no
\* deadline or later event fails it.
C21_DeadlineAbortsPendingDownload ==
    /\ [](DeadlineArmedWhilePending /\ (download.error = TimeoutError => TimedOut))
    /\ [][/\ download.error = TimeoutError => download'.error = TimeoutError
          /\ download.state = "resolved"
               => download'.state = "resolved" /\ download'.error = ""
          /\ (download.state = "pending" /\ download'.error = TimeoutError)
               => /\ download'.bytes = download.bytes
                  /\ download'.audio = "destroyed" /\ download'.write = "destroyed"]_vars

\* The deadline expired after one chunk of one byte had arrived; the request
\* ended with 400 and the cleanup ran.
C21_Witness ==
    /\ req.handler = "url" /\ pc = "done"
    /\ download.error = TimeoutError /\ download.state = "rejected"
    /\ download.chunks = 1 /\ download.bytes = 1
    /\ LastResponse.status = 400 /\ unlinks = 1

\* A metadata lookup that found the video live or private.
IsUnavailableLookup(c) == c.op = "getInfo" /\ c.exchange \in {"live", "private"}

\* C22: a URL upload whose metadata marks the video as live or private ends
\* at the metadata lookup with 400 "Failed to get video information": the
\* lookup is the only call made, no temporary path is assigned, no file is
\* created, no download is started and no unlink call occurs.
C22_UnavailableVideoEndsAtLookup ==
    \A i \in 1..Len(calls) :
        IsUnavailableLookup(calls[i]) =>
            /\ req.handler = "url" /\ i = 1 /\ Len(calls) = 1 /\ ~calls[i].ok
            /\ pc = "done" /\ Len(sent) = 1
            /\ sent[1].status = 400 /\ ~sent[1].success
            /\ sent[1].error = "Failed to get video information"
            /\ sent[1].cause = 1
            /\ tempFilePath = NoPath /\ tmpFile = "absent"
            /\ download = IdleDownload /\ unlinks = 0
            /\ video = NoVideo /\ filename = <<>>

\* A live video was refused at the metadata lookup.
C22_Witness ==
    /\ req.handler = "url" /\ pc = "done" /\ Len(calls) = 1
    /\ calls[1].op = "getInfo" /\ calls[1].exchange = "live"
    /\ sent[1].status = 400 /\ unlinks = 0 /\ tempFilePath = NoPath

\* Letters, digits, whitespace, hyphen, underscore and parentheses.
AllowedInTitle ==
    Range(LowerCase) \cup Range(UpperCase) \cup Digits \cup Whitespace
        \cup {"-", "_", "(", ")"}

\* " (videoId).m4a"
FilenameSuffix(videoId) == <<" ", "(">> \o videoId \o <<")", ".", "m", "4", "a">>

\* C23: the filename generated for a video is a title part followed by
\* " (videoId).m4a", the title part has only letters, digits, whitespace,
\* hyphen, underscore and parentheses, and the whole filename has at most
\* 128 characters.
C23_GeneratedFilenameWithinCeiling ==
    video # NoVideo =>
        LET suffix == FilenameSuffix(video.videoId)
            n == Len(filename) - Len(suffix)
        IN  /\ n >= 0
            /\ SubSeq(filename, n + 1, Len(filename)) = suffix
            /\ \A k \in 1..n : filename[k] \in AllowedInTitle
            /\ Len(filename) <= 128

\* The households the /households call of this request returned.
ListedHouseholds ==
    LET j == CHOOSE j \in 1..Len(calls) : calls[j].path = HouseholdsPath
    IN  calls[j].items

HouseholdsWereListed ==
    \E j \in 1..Len(calls) :
        calls[j].path = HouseholdsPath /\ calls[j].ok /\ calls[j].shape = "array"

\* The positions in calls of the lookups made for household h on a path.
LookupsOf(h, path) ==
    {j \in 1..Len(calls) :
        calls[j].op = "api" /\ calls[j].path = path /\ calls[j].household = h}

\* C24: after /households returned its list the directory listing has one
\* creative-tonie lookup per listed household, all in flight together and
\* free to complete in any order; once all are done it answers 200 with
\* exactly one entry per listed household, in the order of the listing; a
\* household whose primary and hyphenated lookups both failed has an empty
\* creativeTonies list in it.
C24_JoinKeepsListingOrder ==
    (req.handler = "households" /\ HouseholdsWereListed) =>
        /\ Len(lookups) = Len(ListedHouseholds)
        /\ \A i \in DOMAIN lookups :
            LET h == ListedHouseholds[i].id
                primary == LookupsOf(h, CreativeToniesPath)
                fallback == LookupsOf(h, FallbackPath)
            IN  /\ lookups[i].household = ListedHouseholds[i]
                /\ lookups[i].st = "primary" => primary = {} /\ fallback = {}
                /\ lookups[i].st = "fallback" =>
                       /\ Cardinality(primary) = 1 /\ fallback = {}
                       /\ \A j \in primary : ~calls[j].ok
                /\ lookups[i].st = "done" =>
                       /\ Cardinality(primary) = 1 /\ Cardinality(fallback) <= 1
                       /\ \A j \in primary : calls[j].ok <=> fallback = {}
        /\ \/ pc = "fanout" /\ ~Answered
           \/ /\ pc = "done" /\ Len(sent) = 1
              /\ \A i \in DOMAIN lookups : lookups[i].st = "done"
              /\ LastResponse.success /\ LastResponse.status = 200
              /\ Len(LastResponse.households) = Len(ListedHouseholds)
              /\ \A k \in 1..Len(ListedHouseholds) :
                  LET entry == LastResponse.households[k]
                      h == ListedHouseholds[k].id
                  IN  /\ entry.id = h
                      /\ entry.name = ListedHouseholds[k].name
                      /\ (\A j \in LookupsOf(h, CreativeToniesPath)
                                      \cup LookupsOf(h, FallbackPath) : ~calls[j].ok)
                            => entry.creativeTonies = <<>>

\* Two households were listed, the lookup of the second completed before
\* the lookup of the first, which failed on both endpoints; the response
\* has them in the order of the listing.
C24_Witness ==
    /\ req.handler = "households" /\ pc = "done" /\ HouseholdsWereListed
    /\ Len(ListedHouseholds) = 2 /\ LastResponse.success
    /\ LET first == ListedHouseholds[1].id
           second == ListedHouseholds[2].id
       IN  /\ \E j \in LookupsOf(first, FallbackPath) : ~calls[j].ok
           /\ \E i \in LookupsOf(second, CreativeToniesPath) :
                  /\ calls[i].ok /\ calls[i].items # <<>>
                  /\ \A j \in LookupsOf(first, CreativeToniesPath) : i < j
           /\ LastResponse.households[1].id = first
           /\ LastResponse.households[1].creativeTonies = <<>>
           /\ LastResponse.households[2].creativeTonies # <<>>

\* Nothing but the response has happened: no upstream call, no metadata
\* lookup or download, no temporary file.
OnlyAnswered ==
    /\ calls = <<>> /\ pc \in {"start", "done"}
    /\ accessToken = "" /\ lookups = <<>>
    /\ tempFilePath = NoPath /\ tmpFile = "absent" /\ download = IdleDownload

C27_EveryErrorHasStringDetails ==
    \A k \in 1..Len(sent) :
        (~sent[k].success /\ ~sent[k].bare) =>
            sent[k].error # "" /\ sent[k].details = "string"

\* The /households listings of this request that lack the household of the
\* supplied key.
ListingLacksHousehold(c) ==
    /\ c.op = "api" /\ c.path = HouseholdsPath /\ c.ok /\ c.shape # "object"
    /\ ~HasId(c.items, householdId(req.tonieId))

\* C28: on both upload paths the household of the supplied key is resolved
\* against the households of the account before the tonie is looked for: a
\* listing that lacks it ends the request with 404 "Household not found"
\* and the id and name of every listed household, and no creative-tonies
\* listing or chapter registration is made for a household that was not
\* found in the listing.
C28_UnknownHouseholdIs404 ==
    req.handler \in UploadHandlers =>
        /\ \A j \in 1..Len(calls) :
            ListingLacksHousehold(calls[j]) =>
                /\ j = Len(calls) /\ Leaving /\ Len(sent) = 1
                /\ LastResponse.status = 404
                /\ LastResponse.error = "Household not found"
                /\ LastResponse.available = Available(calls[j].items)
        /\ \A i \in 1..Len(calls) :
            (calls[i].op = "api"
                /\ calls[i].path \in {CreativeToniesPath, FallbackPath, ChaptersPath})
              => \E j \in 1..(i - 1) :
                    /\ calls[j].op = "api" /\ calls[j].path = HouseholdsPath
                    /\ calls[j].ok
                    /\ HasId(calls[j].items, householdId(req.tonieId))

\* C29: every request makeTonieApiRequest issues carries
\* Authorization: Bearer <token> with the handler's access token and
\* Content-Type: application/json, whether the handler passed no options
\* (the listings), a method (POST /file) or a method and a body (the chapter
\* registration, whose body has the title and the fileId); the method is
\* GET for the calls made without options and POST for the other two.
C29_ApiRequestHeaders ==
    \A i \in 1..Len(calls) :
        calls[i].op = "api" =>
            /\ calls[i].token = accessToken /\ accessToken # ""
            /\ calls[i].authorization = <<"Bearer ", accessToken>>
            /\ calls[i].contentType = "application/json"
            /\ calls[i].method =
                 IF calls[i].path \in {FilePath, ChaptersPath} THEN "POST" ELSE "GET"
            /\ calls[i].path = ChaptersPath =>
                 calls[i].title = req.title /\ calls[i].file = fileId

\* An upload made a listing without options, POST /file with a method and
\* the chapter registration with a method and a body, all with the token of
\* its login.
C29_Witness ==
    /\ req.handler = "url" /\ pc = "finally" /\ LastResponse.success
    /\ accessToken = "tokB"
    /\ \E i, j, k \in 1..Len(calls) :
        /\ calls[i].path = FilePath /\ calls[i].method = "POST"
        /\ calls[j].path = HouseholdsPath /\ calls[j].method = "GET"
        /\ calls[k].path = ChaptersPath /\ calls[k].method = "POST"
        /\ calls[k].title # <<>>
        /\ \A n \in {i, j, k} : calls[n].authorization = <<"Bearer ", "tokB">>

C31_ExactlyOneResponse ==
    /\ [](Len(sent) <= 1 /\ (pc = "done" => Len(sent) = 1))
    /\ [][sent # <<>> => sent' = sent]_vars
    /\ <>(pc = "done" /\ Len(sent) = 1)

\* The file of a URL upload could not be created: the download failed, the
\* handler answered 400, unlink failed in the finally block, and the
\* request still has its one response.
C31_Witness ==
    /\ req.handler = "url" /\ pc = "done" /\ unlinks = 1 /\ tmpFile = "absent"
    /\ download.error = "File write error"
    /\ Len(sent) = 1 /\ sent[1].status = 400


\* ---------------------------------------------------------------- claim C32

IsChapterCall(call) == call.op = "api" /\ call.path = ChaptersPath

IsTonieListingCall(call) == call.op = "api" /\ call.path = CreativeToniesPath

\* The bytes were accepted by the storage service before call i was issued.
TransferredBefore(i) ==
    \E s \in 1..(i - 1) : calls[s].op = "s3" /\ calls[s].ok /\ calls[s].status = 200

MaxEvents == 4

SourceErrorMessages == {"Video access forbidden", "Video not found", "Download failed"}

\* One callback run: which one, and what it passed to resolve or reject
\* ("none" for a data chunk that stays under the ceiling).
Event(name, outcome, error) == [event |-> name, outcome |-> outcome, error |-> error]

InitSettle ==
    /\ req \in [handler : {"url"}, opened : BOOLEAN]
    /\ pc = "download"
    /\ uploadRequest = NoTarget
    /\ calls = <<>>
    /\ sent = <<>>
    /\ accessToken = ""
    /\ fileId = ""
    /\ lookups = <<>>
    /\ primaryStatus = 0
    /\ video = NoVideo
    /\ filename = <<>>
    /\ tempFilePath = TempPath
    /\ tmpFile = IF req.opened THEN "exists" ELSE "absent"
    /\ unlinks = 0
    /\ download = StartedDownload(req.opened)
    /\ fileSize = 0
    /\ headers = NoHeaders
    /\ log = <<>>

Delivered(d, e) ==
    /\ pc = "download"
    /\ Len(calls) < MaxEvents
    /\ download' = d
    /\ calls' = Append(calls, e)
    /\ UNCHANGED <<req, headers, log, pc, sent, accessToken, uploadRequest, fileId, lookups,
                   primaryStatus, video, filename, tempFilePath, tmpFile, unlinks,
                   fileSize>>

EventData ==
    /\ download.chunks < MaxChunks
    /\ \E n \in ChunkLengths :
        Delivered(OnData(download, n),
                  IF download.bytes + n > MAX_FILE_SIZE_URL
                  THEN Event("data", "rejected",
                             "Download aborted: File size exceeds 512MB limit")
                  ELSE Event("data", "none", ""))

EventSourceError ==
    \E message \in SourceErrorMessages :
        Delivered(OnSourceError(download, message),
                  Event("sourceError", "rejected", message))

EventWriteError ==
    Delivered(OnWriteError(download), Event("writeError", "rejected", "File write error"))

EventFinish == Delivered(OnFinish(download), Event("finish", "resolved", ""))

\* A timer fires at most once, and not after clearTimeout.
EventTimeout ==
    /\ download.timer
    /\ Delivered(OnTimeout(download), Event("timeout", "rejected", TimeoutError))

NextSettle ==
    \/ EventData
    \/ EventSourceError
    \/ EventWriteError
    \/ EventFinish
    \/ EventTimeout

SpecSettle == InitSettle /\ [][NextSettle]_vars

\* The callbacks run so far that called resolve or reject.
Deciders == {i \in 1..Len(calls) : calls[i].outcome # "none"}

FirstDecider == CHOOSE i \in Deciders : \A j \in Deciders : i <= j

\* C33: whatever the order of the callbacks, the promise is pending until the
\* first callback that resolves or rejects, then has that callback's outcome
\* and error for good; and once a callback other than the deadline has run
\* its clearTimeout, the timer is off and the deadline callback never runs.
C33_FirstEventDecides ==
    /\ [](/\ download.state = "pending" <=> Deciders = {}
          /\ Deciders # {} =>
                /\ download.state = calls[FirstDecider].outcome
                /\ download.error = calls[FirstDecider].error
          /\ \A i \in 1..Len(calls) :
                (calls[i].outcome # "none" /\ calls[i].event # "timeout")
                  => /\ ~download.timer
                     /\ \A j \in (i + 1)..Len(calls) : calls[j].event # "timeout")
    /\ [][/\ download.state # "pending" =>
                /\ download'.state = download.state
                /\ download'.error = download.error
          /\ ~download.timer => ~download'.timer]_vars

\* A write error after the finish callback has resolved the promise: the
\* download stays resolved.
C33_Witness ==
    /\ Len(calls) >= 3
    /\ calls[1].event = "data" /\ calls[1].outcome = "none"
    /\ calls[2].event = "finish"
    /\ calls[3].event \in {"writeError", "sourceError"}
    /\ download.state = "resolved" /\ download.error = "" /\ ~download.timer


\* ---------------------------------------------------------------- claim C34

PostDownloadError == "Downloaded file validation failed"

\* C34: the byte count starts at 0 and grows only by the length of a data
\* chunk, one chunk at a time; a resolved download has a count of at most
\* 536870912, which is the size the URL handler goes on with; the validation
\* after the download therefore never reports the size rule, and never the
\* format rule, the filename ending in .m4a.
C34_ResolvedSizeWithinCeiling ==
    /\ [](req.handler = "url" =>
            /\ download.state = "idle" => download.bytes = 0 /\ download.chunks = 0
            /\ download.state = "resolved" =>
                /\ download.bytes <= MAX_FILE_SIZE_URL
                /\ pc # "download" => fileSize = download.bytes
                /\ SubSeq(filename, Len(filename) - 3, Len(filename))
                        = <<".", "m", "4", "a">>
            /\ \A r \in 1..Len(sent) :
                sent[r].error = PostDownloadError =>
                    /\ download.state = "resolved"
                    /\ sent[r].violations # <<>>
                    /\ Range(RulesOf(sent[r].violations)) \cap {"size", "format"} = {})
    /\ [][(req.handler = "url" /\ download.state # "idle"
            /\ <<download'.bytes, download'.chunks>> # <<download.bytes, download.chunks>>)
          => /\ download'.chunks = download.chunks + 1
             /\ \E n \in ChunkLengths : download'.bytes = download.bytes + n]_vars

\* A download of exactly 536870912 bytes in one chunk was accepted and the
\* upload went through with that size.
C34_Witness ==
    /\ req.handler = "url" /\ pc = "done"
    /\ download.state = "resolved" /\ download.chunks = 1
    /\ download.bytes = MAX_FILE_SIZE_URL /\ fileSize = MAX_FILE_SIZE_URL
    /\ Len(sent) = 1 /\ sent[1].success /\ sent[1].fileSize = MAX_FILE_SIZE_URL


\* ---------------------------------------------------------------- claim C35

\* C35: the device upload sends its debug response only for a POST whose four
\* required fields were present, whose appPassword is the configured secret,
\* whose title starts with DEBUG and whose file passed validateFile; the
\* response carries the filename and the size of the file of the request, and
\* no upstream call was made.
C35_DebugBypassKeepsGateAndValidation ==
    req.handler = "device" =>
        \A r \in 1..Len(sent) :
            sent[r].debug =>
                /\ req.method = "POST" /\ req.bodyReadOk
                /\ req.appPassword # "" /\ req.tonieId # <<>> /\ req.title # <<>>
                /\ req.hasFile
                /\ req.appPassword = APP_PASSWORD
                /\ validateFile(req.fileSize, req.filename, MAX_FILE_SIZE_DEVICE) = <<>>
                /\ SubSeq(req.title, 1, 5) = DEBUG_MARKER
                /\ sent[r].status = 200 /\ sent[r].success
                /\ sent[r].filename = req.filename
                /\ sent[r].fileSize = req.fileSize
                /\ calls = <<>>
                /\ pc = "done" /\ Len(sent) = 1

\* The debug response for a file of exactly the device ceiling.
C35_Witness ==
    /\ req.handler = "device" /\ pc = "done"
    /\ Len(sent) = 1 /\ sent[1].debug
    /\ sent[1].fileSize = MAX_FILE_SIZE_DEVICE
    /\ sent[1].filename = req.filename


\* ---------------------------------------------------------------- claim C36

\* C36: no line of the log holds the appPassword the caller supplied (where
\* the field is logged it is masked), and no response holds it.
C36_SecretNeverLogged ==
    /\ \A i \in 1..Len(log) :
        log[i].field = "appPassword" => log[i].value = MASK
    /\ \A r \in 1..Len(sent) :
        req.appPassword # "" => sent[r].sessionToken # req.appPassword


\* ---------------------------------------------------------------- claim C37
\* The transfer body as text, and the decoder run on that text. A text is a
\* sequence of symbols: single characters, and the fixed header phrases of the
\* builder as one symbol each. "e-umlaut" stands for one character outside
\* ASCII; "x07", "xC3", "xA4", "xC8" stand for the characters with those codes.

QUOTE == "\""

CRLF == <<"\r", "\n">>

DispositionText == "Content-Disposition: form-data; name="

FilenameText == "; filename="

ContentTypeText == "Content-Type: application/octet-stream"

\* `--${boundary}`
Delimiter(boundary) == <<"--", boundary>>

RECURSIVE Flatten(_)
Flatten(texts) == IF texts = <<>> THEN <<>> ELSE Head(texts) \o Flatten(Tail(texts))

\* Buffer.from(body, 'utf8') read back with req.setEncoding('binary'): a
\* character outside ASCII becomes one character per byte of its encoding.
Utf8AsBinary(text) ==
    Flatten([i \in 1..Len(text) |->
                IF text[i] = "e-umlaut" THEN <<"xC3", "xAB">> ELSE <<text[i]>>])

\* Character codes of the single-character symbols.
CharCodes ==
    << <<"\r", 13>>, <<"\n", 10>>, <<"\"", 34>>, <<".", 46>>, <<"3", 51>>, <<"a", 97>>,
       <<"b", 98>>, <<"k", 107>>, <<"m", 109>>, <<"p", 112>>, <<"v", 118>>, <<"w", 119>>,
       <<"y", 121>>, <<"x07", 7>>, <<"xC3", 195>>, <<"xAB", 171>>, <<"xC8", 200>> >>

\* A byte read with the 'binary' encoding: the character with that code.
CharOf(byte) == CharCodes[CHOOSE k \in 1..Len(CharCodes) : CharCodes[k][2] = byte][1]

\* Buffer.from(text, 'binary') for one character: its code.
ByteOf(char) ==
    IF \E k \in 1..Len(CharCodes) : CharCodes[k][1] = char
    THEN CharCodes[CHOOSE k \in 1..Len(CharCodes) : CharCodes[k][1] = char][2]
    ELSE 0

BinaryString(bytes) == [i \in 1..Len(bytes) |-> CharOf(bytes[i])]

BufferFromBinary(text) == [i \in 1..Len(text) |-> ByteOf(text[i])]

\* The text of one entry of uploadRequest.request.fields in the body.
FieldText(entry, boundary) ==
    Delimiter(boundary) \o CRLF
    \o <<DispositionText, QUOTE>> \o entry[1] \o <<QUOTE>> \o CRLF \o CRLF
    \o entry[2] \o CRLF

\* completeBody of uploadToS3 as the decoder's handler reads it: the header
\* text encoded as UTF-8, the file bytes, the closing boundary.
CompleteBodyText(fields, fileData, name, boundary) ==
    Utf8AsBinary(
        Flatten([i \in 1..Len(fields) |-> FieldText(fields[i], boundary)])
        \o Delimiter(boundary) \o CRLF
        \o <<DispositionText, QUOTE, "file", QUOTE, FilenameText, QUOTE>> \o name
        \o <<QUOTE>> \o CRLF
        \o <<ContentTypeText>> \o CRLF \o CRLF)
    \o BinaryString(fileData)
    \o Utf8AsBinary(CRLF \o Delimiter(boundary) \o <<"--">> \o CRLF)

\* String.prototype.indexOf / lastIndexOf for a text, 1-based; 0 if none.
MatchAt(s, pat, i) ==
    /\ i + Len(pat) - 1 <= Len(s)
    /\ SubSeq(s, i, i + Len(pat) - 1) = pat

IndexOfText(s, pat) ==
    LET hits == {i \in 1..Len(s) : MatchAt(s, pat, i)}
    IN  IF hits = {} THEN 0 ELSE CHOOSE i \in hits : \A j \in hits : i <= j

LastIndexOfText(s, pat) ==
    LET hits == {i \in 1..Len(s) : MatchAt(s, pat, i)}
    IN  IF hits = {} THEN 0 ELSE CHOOSE i \in hits : \A j \in hits : i >= j

\* String.prototype.split for a text separator.
RECURSIVE SplitText(_, _)
SplitText(s, pat) ==
    LET i == IndexOfText(s, pat)
    IN  IF i = 0 THEN <<s>>
        ELSE <<SubSeq(s, 1, i - 1)>> \o SplitText(SubSeq(s, i + Len(pat), Len(s)), pat)

\* The characters from position i up to the next quote or the end of line.
RECURSIVE Unquoted(_, _)
Unquoted(line, i) ==
    IF i > Len(line) \/ line[i] = QUOTE THEN <<>>
    ELSE <<line[i]>> \o Unquoted(line, i + 1)

\* line.match(/name="([^"]+)"/) and line.match(/filename="([^"]+)"/): the
\* capture of the leftmost match, <<>> when nothing matches. openers are the
\* header phrases that end in the attribute name.
Capture(line, openers) ==
    LET matches == {i \in 1..Len(line) :
                        /\ line[i] \in openers
                        /\ i + 1 <= Len(line) /\ line[i + 1] = QUOTE
                        /\ Unquoted(line, i + 2) # <<>>
                        /\ i + 2 + Len(Unquoted(line, i + 2)) <= Len(line)}
    IN  IF matches = {} THEN <<>>
        ELSE Unquoted(line, (CHOOSE i \in matches : \A j \in matches : i <= j) + 2)

\* lines.find(line => line.includes('Content-Disposition'))
DispositionLine(part) ==
    LET lines == SplitText(part, CRLF)
        hits == {i \in 1..Len(lines) : DispositionText \in Range(lines[i])}
    IN  lines[CHOOSE i \in hits : \A j \in hits : i <= j]

NothingParsed == [fields |-> <<>>, hasFile |-> FALSE, fileData |-> <<>>, filename |-> <<>>]

\* One round of the loop of parseMultipartData over the parts of the body.
ParsePart(out, part) ==
    IF DispositionText \notin Range(part) THEN out
    ELSE
    LET disposition == DispositionLine(part)
        nameMatch == Capture(disposition, {DispositionText, FilenameText})
        filenameMatch == Capture(disposition, {FilenameText})
        blank == IndexOfText(part, CRLF \o CRLF)
        last == LastIndexOfText(part, CRLF)
        invalid == blank = 0 \/ last <= blank + 4
        data == SubSeq(part, blank + 4, last - 1)
    IN  IF nameMatch = <<>> THEN out
        ELSE IF filenameMatch # <<>>
            THEN IF invalid THEN [out EXCEPT !.filename = filenameMatch]
                 ELSE [out EXCEPT !.filename = filenameMatch, !.hasFile = TRUE,
                                  !.fileData = BufferFromBinary(data)]
        ELSE IF invalid THEN out
        ELSE [out EXCEPT !.fields = SetField(out.fields, nameMatch, data)]

RECURSIVE ParseParts(_, _)
ParseParts(out, parts) ==
    IF parts = <<>> THEN out ELSE ParseParts(ParsePart(out, Head(parts)), Tail(parts))

\* parseMultipartData(body, contentType) on a text body; boundary is what
\* contentType.match(/boundary=([^;]+)/) captured.
parseMultipartText(body, boundary) ==
    ParseParts(NothingParsed, SplitText(body, Delimiter(boundary)))

RoundTripNames == { <<"k">>, <<"k", "y">>, <<"k", QUOTE, "y">> }

RoundTripValues == { <<"v">>, <<"v", "\r", "\n", "w">> }

\* Fields objects of zero to two entries with distinct names.
RoundTripFields ==
    { <<>> }
    \cup { << <<n, v>> >> : n \in RoundTripNames, v \in RoundTripValues }
    \cup { << <<<<"k">>, v>>, <<<<"k", "y">>, w>> >> : v, w \in RoundTripValues }

RoundTripFilenames ==
    { <<"a", ".", "m", "p", "3">>, <<"a", QUOTE, "b", ".", "m", "p", "3">>,
      <<"e-umlaut", ".", "m", "p", "3">>, <<>> }

RoundTripPayloads ==
    { <<7>>, <<200, 7>>, <<13, 10>>, <<7, 13, 10, 13, 10, 200>>, <<34, 97>> }

InitRoundTrip ==
    /\ req \in [handler : {"device"}, filename : RoundTripFilenames,
                fileData : RoundTripPayloads, boundary : Boundaries]
    /\ uploadRequest \in [fileId : {"f1"}, shape : {"full"}, url : {"https://s3/a"},
                          fields : RoundTripFields]
    /\ pc = "s3"
    /\ NothingDone

\* Build the body as uploadToS3 does and decode it: what the decoder returns
\* is put in sent.
RoundTrip ==
    /\ pc = "s3"
    /\ sent' = << parseMultipartText(
                    CompleteBodyText(uploadRequest.fields, req.fileData, req.filename,
                                     req.boundary),
                    req.boundary) >>
    /\ pc' = "done"
    /\ UNCHANGED <<req, headers, log, calls, accessToken, uploadRequest, fileId, lookups,
                   primaryStatus, urlVars>>

NextRoundTrip == RoundTrip

SpecRoundTrip == InitRoundTrip /\ [][NextRoundTrip]_vars

\* The fields object as a mapping from name to value.
AsMapping(entries) ==
    [n \in {entries[i][1] : i \in 1..Len(entries)} |->
        entries[CHOOSE i \in 1..Len(entries) : entries[i][1] = n][2]]

Decoded == sent[1]

RoundTripExact ==
    /\ DOMAIN Decoded.fields = DOMAIN AsMapping(uploadRequest.fields)
    /\ \A n \in DOMAIN Decoded.fields : Decoded.fields[n] = AsMapping(uploadRequest.fields)[n]
    /\ Decoded.filename = req.filename
    /\ Decoded.hasFile
    /\ Decoded.fileData = req.fileData

\* C37: decoding the body that uploadToS3 builds gives back the fields, the
\* filename and the file bytes it was built from.
C37_BuildThenDecodeIsIdentity == pc = "done" => RoundTripExact

PlainText(text) == text # <<>> /\ Range(text) \cap {QUOTE, "e-umlaut"} = {}

\* The round trip is exact when the names and the filename are non-empty
\* ASCII text without a double quote.
RoundTripOfPlainText ==
    (/\ pc = "done"
     /\ PlainText(req.filename)
     /\ \A i \in 1..Len(uploadRequest.fields) : PlainText(uploadRequest.fields[i][1]))
        => RoundTripExact

====
